---------------------------- MODULE Spec2Model ----------------------------
(***************************************************************************)
(* Job queue, single worker, pipeline orchestrator and auto-retry          *)
(* scheduler of jarvis-desktop (src-tauri/src/main.rs).                    *)
(*                                                                         *)
(* memJobs is JobRuntimeState.jobs (the in-memory mirror), diskJobs is the *)
(* jobs.json document, diskPipes the pipelines.json document.  Pipelines   *)
(* have no in-memory mirror: every handler loads and saves the document.   *)
(* Option<T> values are sequences: <<>> is None, <<v>> is Some(v).         *)
(* Indexes into steps are 0-based as in the source (steps[i] is written    *)
(* steps[i + 1] here).                                                     *)
(***************************************************************************)
EXTENDS Integers, Sequences, FiniteSets, TLC

VARIABLES
    memJobs,          \* JobRuntimeState.jobs
    diskJobs,         \* jobs.json
    diskPipes,        \* pipelines.json
    running_job_id,   \* JobRuntimeState.running_job_id
    cancel_requested, \* JobRuntimeState.cancel_requested
    wpc,              \* position of the worker thread in its loop
    wjob,             \* job_id of the job the worker holds (next_job)
    booted,           \* FALSE between process start and resume_pipelines_if_possible
    now,              \* now_epoch_ms()
    nextJobId,        \* source of fresh job ids
    nextPipeId,       \* source of fresh pipeline ids
    settings,         \* settings.json
    audit,            \* audit.jsonl, one record per line
    ops,              \* number of commands (and crashes) still to come
    last,             \* the last command: its name, result and arguments
    rec,              \* a reconciliation pass of the main thread, while under way
    call,             \* an enqueue_job call of the main thread, while under way
    files,            \* the documents' paths and their temporary siblings, as
                      \* the file system holds them (followed in SpecFiles)
    threads           \* WORKER_STARTED, the threads inside
                      \* start_job_worker_if_needed and the worker threads it
                      \* has spawned (followed in SpecWorkers)

vars == <<memJobs, diskJobs, diskPipes, running_job_id, cancel_requested, wpc,
          wjob, booted, now, nextJobId, nextPipeId, settings, audit, ops, last,
          rec, call, files, threads>>

\* What a handler's result sets.
runtimeVars == <<memJobs, diskJobs, diskPipes, cancel_requested, nextJobId>>
workerVars == <<running_job_id, wpc, wjob>>
envVars == <<booted, now, settings>>

---------------------------------------------------------------------------
\* Bounds of the model.
MaxJobs == 4
MaxPipes == 1
MaxSteps == 2
MaxOps == 3
MaxClock == 1

\* One clock step, in milliseconds.
ClockStepMs == 1000

---------------------------------------------------------------------------
\* Option<T>
None == <<>>
Some(v) == <<v>>
IsSome(o) == o /= <<>>
Unwrap(o) == o[1]

Min(a, b) == IF a < b THEN a ELSE b
Max(a, b) == IF a > b THEN a ELSE b

RECURSIVE Pow2(_)
Pow2(n) == IF n = 0 THEN 1 ELSE 2 * Pow2(n - 1)

JobStatus == {"Queued", "Running", "Succeeded", "Failed", "NeedsRetry", "Canceled"}
PipelineStepStatus == {"Pending", "Running", "Succeeded", "Failed", "NeedsRetry", "Canceled"}
PipelineStatus == {"Running", "Succeeded", "Failed", "NeedsRetry", "Canceled"}

\* The settings documents the model starts from: auto-retry enabled, delays
\* in seconds.
SettingsChoices ==
    { [auto_retry_enabled |-> TRUE, auto_retry_max_per_job |-> 2,
       auto_retry_max_per_pipeline |-> 1, auto_retry_max_delay_seconds |-> 2,
       auto_retry_base_delay_seconds |-> 1] }

\* What the process adapter may return for one execution (RunResult reduced
\* to what classify_job_status reads): status, ok, retry_after_sec, and what
\* inspect_retry_fields finds in the run's result.json, when there is one.
RunResults ==
    { [ok |-> TRUE, status |-> "ok", retry_after_sec |-> None, result_json |-> None],
      [ok |-> FALSE, status |-> "error", retry_after_sec |-> None, result_json |-> None],
      [ok |-> FALSE, status |-> "needs_retry", retry_after_sec |-> None,
       result_json |-> None],
      [ok |-> FALSE, status |-> "needs_retry", retry_after_sec |-> Some(0),
       result_json |-> None],
      [ok |-> FALSE, status |-> "error", retry_after_sec |-> None,
       result_json |-> Some([needs_retry |-> TRUE, retry_after |-> None,
                             status_ok |-> FALSE])],
      [ok |-> FALSE, status |-> "error", retry_after_sec |-> None,
       result_json |-> Some([needs_retry |-> FALSE, retry_after |-> None,
                             status_ok |-> TRUE])] }

---------------------------------------------------------------------------
\* Sequence helpers.
RECURSIVE Position(_, _, _)
Position(jobs, id, i) ==
    IF i > Len(jobs) THEN 0
    ELSE IF jobs[i].job_id = id THEN i
    ELSE Position(jobs, id, i + 1)

\* jobs.iter().position(|j| j.job_id == job_id), 1-based, 0 when absent
JobIndex(jobs, id) == Position(jobs, id, 1)

RECURSIVE FirstQueued(_, _)
FirstQueued(jobs, i) ==
    IF i > Len(jobs) THEN 0
    ELSE IF jobs[i].status = "Queued" THEN i
    ELSE FirstQueued(jobs, i + 1)

Range(s) == {s[i] : i \in 1..Len(s)}

---------------------------------------------------------------------------
\* Records.

\* JobRecord as enqueue_job_internal builds it.  params and created_at are
\* left out (no handler reads them back; jobs are kept in creation order);
\* updated_at is the clock reading of the last write to the record; a
\* retry_after_seconds value is kept in thousandths of a second; last_error
\* keeps whether there is a message, not its text.
NewJobRecord(id, tpl, canon) ==
    [job_id |-> id, template_id |-> tpl, canonical_id |-> canon,
     status |-> "Queued", attempt |-> 0,
     run_id |-> None, last_error |-> None, retry_after_seconds |-> None,
     retry_at |-> None, auto_retry_attempt_count |-> 0, updated_at |-> now]

\* The instant a step's started_at or finished_at records: that it is set is
\* kept, the instant is not.
Stamp == "ts"

\* PipelineStep as create_pipeline builds it.
NewPipelineStep(idx) ==
    [step_id |-> idx + 1, template_id |-> idx + 1, job_id |-> None,
     status |-> "Pending", run_id |-> None, started_at |-> None,
     finished_at |-> None]

\* PipelineRecord as create_pipeline builds it.  Pipeline p works on the
\* business key p, so (canonical_id, template_id) of a job names the step
\* that enqueued it; a job enqueued by enqueue_job has canonical_id 0.
NewPipelineRecord(id, nsteps) ==
    [pipeline_id |-> id, canonical_id |-> id,
     steps |-> [i \in 1..nsteps |-> NewPipelineStep(i - 1)],
     current_step_index |-> 0, status |-> "Running",
     auto_retry_attempt_count |-> 0]

\* The part of the process state a command handler reads and writes, so
\* that handlers calling handlers compose: mem, disk, pipes, cancel, nid
\* (next fresh job id) and ok (FALSE when the handler returned Err).
World ==
    [mem |-> memJobs, disk |-> diskJobs, pipes |-> diskPipes,
     cancel |-> cancel_requested, nid |-> nextJobId, ok |-> TRUE]

Fail(w) == [w EXCEPT !.ok = FALSE]

---------------------------------------------------------------------------
\* State store and job runtime.

load_jobs_from_file(w) == w.disk

init_job_runtime(w) ==
    IF w.mem = <<>> THEN [w EXCEPT !.mem = load_jobs_from_file(w)] ELSE w

\* persist_state run without another thread in between: the clone of
\* guard.jobs is what save_jobs_to_file writes.
persist_state(w) == [w EXCEPT !.disk = w.mem]

compute_next_retry_at_ms(now_ms, retry_after_seconds, auto_retry_attempt_count, s) ==
    LET max_ms == s.auto_retry_max_delay_seconds * 1000
        delay_ms ==
            IF IsSome(retry_after_seconds)
            THEN Min(Max(Unwrap(retry_after_seconds), 0), max_ms)
            ELSE LET exp == Min(Max(auto_retry_attempt_count - 1, 0), 31)
                     raw == s.auto_retry_base_delay_seconds * Pow2(exp)
                 IN  Min(raw, s.auto_retry_max_delay_seconds) * 1000
    IN  Max(now_ms + delay_ms, now_ms)

\* A variant that takes a job in need of a retry for a finished one.
step_status_taking_retry_for_success(job) ==
    CASE job.status \in {"Queued", "Running"} -> "Running"
      [] job.status \in {"Succeeded", "NeedsRetry"} -> "Succeeded"
      [] job.status = "Failed" -> "Failed"
      [] job.status = "Canceled" -> "Canceled"

pipeline_step_status_from_job(job) ==
    CASE job.status \in {"Queued", "Running"} -> "Running"
      [] job.status = "Succeeded" -> "Succeeded"
      [] job.status = "Failed" -> "Failed"
      [] job.status = "NeedsRetry" -> "NeedsRetry"
      [] job.status = "Canceled" -> "Canceled"

is_pipeline_step_terminal(status) ==
    status \in {"Succeeded", "Failed", "NeedsRetry", "Canceled"}

\* A variant that classifies the result without regard to the cancellation
\* intent.
classify_ignoring_cancel(run_result, canceled) ==
    IF IsSome(run_result.result_json) /\ Unwrap(run_result.result_json).needs_retry
    THEN [status |-> "NeedsRetry",
          retry_after |-> Unwrap(run_result.result_json).retry_after,
          err |-> Some("message")]
    ELSE IF IsSome(run_result.result_json) /\ Unwrap(run_result.result_json).status_ok
    THEN [status |-> "Succeeded", retry_after |-> None, err |-> None]
    ELSE IF run_result.status = "needs_retry"
    THEN [status |-> "NeedsRetry", retry_after |-> run_result.retry_after_sec,
          err |-> Some("message")]
    ELSE IF run_result.ok
    THEN [status |-> "Succeeded", retry_after |-> None, err |-> None]
    ELSE [status |-> "Failed", retry_after |-> None, err |-> Some("message")]

\* (status, retry_after, err) from the adapter's result and the
\* cancellation intent.
classify_job_status(run_result, canceled) ==
    IF canceled THEN [status |-> "Canceled", retry_after |-> None, err |-> None]
    ELSE IF IsSome(run_result.result_json) /\ Unwrap(run_result.result_json).needs_retry
    THEN [status |-> "NeedsRetry",
          retry_after |-> Unwrap(run_result.result_json).retry_after,
          err |-> Some("message")]
    ELSE IF IsSome(run_result.result_json) /\ Unwrap(run_result.result_json).status_ok
    THEN [status |-> "Succeeded", retry_after |-> None, err |-> None]
    ELSE IF run_result.status = "needs_retry"
    THEN [status |-> "NeedsRetry", retry_after |-> run_result.retry_after_sec,
          err |-> Some("message")]
    ELSE IF run_result.ok
    THEN [status |-> "Succeeded", retry_after |-> None, err |-> None]
    ELSE [status |-> "Failed", retry_after |-> None, err |-> Some("message")]

\* The locked block of enqueue_job_internal: the new job, with a fresh id,
\* pushed on guard.jobs.
push_job(w, tpl, canon) ==
    [w EXCEPT !.mem = Append(@, NewJobRecord(w.nid, tpl, canon)),
              !.nid = @ + 1]

enqueue_job_internal(w, tpl, canon) == persist_state(push_job(w, tpl, canon))

---------------------------------------------------------------------------
\* Pipeline reconciliation.

\* The body of reconcile_pipelines_with_jobs's `loop` for one pipeline, up
\* to the point where it breaks.  enq says that it broke in the Pending
\* branch, where the caller enqueues the step's job and binds it.
RECURSIVE ReconcileLoop(_, _, _)
ReconcileLoop(p, jobs_snapshot, only_job_id) ==
    IF p.current_step_index >= Len(p.steps)
    THEN [p |-> [p EXCEPT !.status = "Succeeded"], enq |-> FALSE]
    ELSE
    LET idx == p.current_step_index
        step == p.steps[idx + 1]
    IN  IF is_pipeline_step_terminal(step.status)
        THEN IF step.status = "Succeeded"
             THEN IF idx + 1 >= Len(p.steps)
                  THEN [p |-> [p EXCEPT !.status = "Succeeded"], enq |-> FALSE]
                  ELSE ReconcileLoop([p EXCEPT !.current_step_index = idx + 1],
                                     jobs_snapshot, only_job_id)
             ELSE [p |-> [p EXCEPT !.status =
                            CASE step.status = "NeedsRetry" -> "NeedsRetry"
                              [] step.status = "Canceled" -> "Canceled"
                              [] OTHER -> "Failed"],
                   enq |-> FALSE]
        ELSE IF step.status = "Pending"
        THEN [p |-> p, enq |-> TRUE]
        ELSE IF step.status = "Running"
        THEN IF ~IsSome(step.job_id)
             THEN ReconcileLoop([p EXCEPT !.steps[idx + 1].status = "Pending"],
                                jobs_snapshot, only_job_id)
             ELSE IF IsSome(only_job_id) /\ Unwrap(only_job_id) /= Unwrap(step.job_id)
             THEN [p |-> p, enq |-> FALSE]
             ELSE
             LET j == JobIndex(jobs_snapshot, Unwrap(step.job_id))
             IN  IF j = 0
                 THEN [p |-> p, enq |-> FALSE]
                 ELSE
                 LET job == jobs_snapshot[j]
                     mapped == pipeline_step_status_from_job(job)
                 IN  IF mapped = "Running"
                     THEN [p |-> p, enq |-> FALSE]
                     ELSE ReconcileLoop(
                            [p EXCEPT !.steps[idx + 1] =
                               [step EXCEPT
                                  !.status = mapped,
                                  !.started_at = IF IsSome(@) THEN @ ELSE Some(Stamp),
                                  !.finished_at = Some(Stamp),
                                  !.run_id = IF IsSome(@) THEN @ ELSE job.run_id]],
                            jobs_snapshot, only_job_id)
        ELSE [p |-> p, enq |-> FALSE]

\* One iteration of `for pipeline in &mut pipelines`: what becomes of the
\* pipeline, and whether a job is to be enqueued for its current step.
ReconcilePipeline(p, jobs_snapshot, only_job_id) ==
    IF p.steps = <<>>
    THEN [p |-> [p EXCEPT !.status = "Succeeded"], enq |-> FALSE]
    ELSE IF p.status /= "Running"
    THEN [p |-> p, enq |-> FALSE]
    ELSE IF p.current_step_index >= Len(p.steps)
    THEN ReconcileLoop([p EXCEPT !.current_step_index = Len(p.steps) - 1],
                       jobs_snapshot, only_job_id)
    ELSE ReconcileLoop(p, jobs_snapshot, only_job_id)

\* A variant that binds the job and leaves the step as it was, Pending.
BindStepLeftPending(p, job_id) ==
    [p EXCEPT !.steps[p.current_step_index + 1] =
                 [@ EXCEPT !.job_id = Some(job_id),
                           !.started_at = IF IsSome(@) THEN @ ELSE Some(Stamp),
                           !.finished_at = None],
              !.status = "Running"]

\* The Pending branch: the step bound to the job just enqueued.
BindStep(p, job_id) ==
    [p EXCEPT !.steps[p.current_step_index + 1] =
                 [@ EXCEPT !.job_id = Some(job_id),
                           !.status = "Running",
                           !.started_at = IF IsSome(@) THEN @ ELSE Some(Stamp),
                           !.finished_at = None],
              !.status = "Running"]

\* A variant that binds the step to a job id without enqueuing the job.
ReconcileAtWithoutEnqueue(r, jobs_snapshot, only_job_id, i) ==
    LET res == ReconcilePipeline(r.pipelines[i], jobs_snapshot, only_job_id)
    IN  IF res.enq
        THEN [w |-> r.w,
              pipelines |-> [r.pipelines EXCEPT ![i] = BindStep(res.p, r.w.nid)]]
        ELSE [w |-> r.w, pipelines |-> [r.pipelines EXCEPT ![i] = res.p]]

\* The iteration for pipelines[i] of the working copy `pipelines`, with the
\* enqueue it makes (enqueue_job_internal pushes the job and persists the
\* jobs document at once).  r is [w, pipelines].
ReconcileAt(r, jobs_snapshot, only_job_id, i) ==
    LET res == ReconcilePipeline(r.pipelines[i], jobs_snapshot, only_job_id)
    IN  IF res.enq
        THEN [w |-> enqueue_job_internal(r.w, res.p.steps[res.p.current_step_index + 1].template_id,
                                         res.p.canonical_id),
              pipelines |-> [r.pipelines EXCEPT ![i] = BindStep(res.p, r.w.nid)]]
        ELSE [w |-> r.w, pipelines |-> [r.pipelines EXCEPT ![i] = res.p]]

RECURSIVE ReconcileFrom(_, _, _, _)
ReconcileFrom(r, jobs_snapshot, only_job_id, i) ==
    IF i > Len(r.pipelines) THEN r
    ELSE ReconcileFrom(ReconcileAt(r, jobs_snapshot, only_job_id, i),
                       jobs_snapshot, only_job_id, i + 1)

\* reconcile_pipelines_with_jobs run without another thread in between.
\* The pipelines document is written once, after the loop, if anything
\* changed.
reconcile_pipelines_with_jobs(w, only_job_id) ==
    IF w.pipes = <<>> THEN w
    ELSE
    LET w1 == [w EXCEPT !.mem = load_jobs_from_file(w)]
        r == ReconcileFrom([w |-> w1, pipelines |-> w.pipes], w1.mem, only_job_id, 1)
    IN  [r.w EXCEPT !.pipes = r.pipelines]

---------------------------------------------------------------------------
\* Job commands, each run without another thread in between.

enqueue_job(w) == enqueue_job_internal(init_job_runtime(w), 0, 0)

list_jobs(w) == [init_job_runtime(w) EXCEPT !.mem = load_jobs_from_file(w)]

cancel_job(w0, job_id) ==
    LET w == init_job_runtime(w0)
        idx == JobIndex(w.mem, job_id)
    IN  IF idx = 0 THEN Fail(w)
        ELSE
        LET st == w.mem[idx].status
            w1 == [w EXCEPT
                     !.cancel = IF st = "Running" THEN @ \cup {job_id} ELSE @,
                     !.mem[idx].status = IF st \in {"Queued", "Running"}
                                         THEN "Canceled" ELSE @,
                     !.mem[idx].updated_at = now]
        IN  reconcile_pipelines_with_jobs(persist_state(w1), Some(job_id))

\* A variant that also takes a Canceled job for retryable.
RetryableOrCanceled(job, force) ==
    job.status = "Failed" \/ job.status = "NeedsRetry" \/ job.status = "Canceled" \/ force

\* The status check of retry_job.
Retryable(job, force) ==
    job.status = "Failed" \/ job.status = "NeedsRetry" \/ force

\* A variant that lets every retry through, due or not.
RetryWindowAlwaysOpen(job, force) == TRUE

\* The retry window check: a retry without force is refused before the
\* instant retry_at names.
RetryWindowOpen(job, force) ==
    ~(~force /\ IsSome(job.retry_at) /\ now < Unwrap(job.retry_at))

\* A variant that also starts the attempts over.
RequeuedFromScratch(job) ==
    [job EXCEPT !.status = "Queued", !.updated_at = now, !.last_error = None,
                !.retry_after_seconds = None, !.retry_at = None, !.attempt = 0]

\* A variant that leaves the retry schedule on the record.
RequeuedKeepingSchedule(job) ==
    [job EXCEPT !.status = "Queued", !.updated_at = now, !.last_error = None]

\* The record as retry_job rewrites it.
Requeued(job) ==
    [job EXCEPT !.status = "Queued", !.updated_at = now, !.last_error = None,
                !.retry_after_seconds = None, !.retry_at = None]

retry_job(w0, job_id, force) ==
    LET w == init_job_runtime(w0)
        idx == JobIndex(w.mem, job_id)
    IN  IF idx = 0 THEN Fail(w)
        ELSE
        LET job == w.mem[idx]
        IN  IF ~Retryable(job, force)
            THEN Fail(w)
            ELSE IF ~RetryWindowOpen(job, force)
            THEN Fail(w)
            ELSE
            LET w1 == [w EXCEPT !.mem[idx] = Requeued(job)]
            IN  reconcile_pipelines_with_jobs(persist_state(w1), Some(job_id))

IsFinished(j) == j.status \in {"Succeeded", "Failed", "Canceled"}

clear_finished_jobs(w0) ==
    LET w == init_job_runtime(w0)
    IN  persist_state([w EXCEPT !.mem = SelectSeq(@, LAMBDA j : ~IsFinished(j))])

---------------------------------------------------------------------------
\* Pipeline commands, each run without another thread in between.

RECURSIVE PipelinePosition(_, _, _)
PipelinePosition(pipelines, id, i) ==
    IF i > Len(pipelines) THEN 0
    ELSE IF pipelines[i].pipeline_id = id THEN i
    ELSE PipelinePosition(pipelines, id, i + 1)

\* pipelines.iter().position(|p| p.pipeline_id == pipeline_id), 1-based
PipelineIndex(pipelines, id) == PipelinePosition(pipelines, id, 1)

RECURSIVE StepPosition(_, _, _)
StepPosition(steps, id, i) ==
    IF i > Len(steps) THEN 0
    ELSE IF steps[i].step_id = id THEN i
    ELSE StepPosition(steps, id, i + 1)

\* steps.iter().position(|s| s.step_id == step_id), 1-based
StepIndex(steps, id) == StepPosition(steps, id, 1)

create_pipeline(w0, pipeline_id, nsteps) ==
    IF nsteps = 0 THEN Fail(w0)
    ELSE
    LET w == init_job_runtime(w0)
        w1 == [w EXCEPT !.pipes = Append(@, NewPipelineRecord(pipeline_id, nsteps))]
    IN  reconcile_pipelines_with_jobs(w1, None)

start_pipeline(w0, pipeline_id) ==
    LET w == init_job_runtime(w0)
        idx == PipelineIndex(w.pipes, pipeline_id)
    IN  IF idx = 0 THEN Fail(w)
        ELSE reconcile_pipelines_with_jobs(
                 [w EXCEPT !.pipes[idx].status = "Running"], None)

\* A variant that cancels the pipeline and its step and leaves the step's
\* job alone.
cancel_pipeline_keeping_job(w0, pipeline_id) ==
    LET w == init_job_runtime(w0)
        pipelines == w.pipes
        idx == PipelineIndex(pipelines, pipeline_id)
    IN  IF idx = 0 THEN Fail(w)
        ELSE
        LET p == pipelines[idx]
            current_idx == p.current_step_index
            inRange == current_idx < Len(p.steps)
            step == p.steps[current_idx + 1]
            p1 == IF inRange /\ ~is_pipeline_step_terminal(step.status)
                  THEN [p EXCEPT !.steps[current_idx + 1].status = "Canceled",
                                 !.steps[current_idx + 1].finished_at = Some(Stamp)]
                  ELSE p
            p2 == [p1 EXCEPT !.status = "Canceled"]
        IN  reconcile_pipelines_with_jobs(
                [w EXCEPT !.pipes = [pipelines EXCEPT ![idx] = p2]], None)

\* `pipelines` is loaded before cancel_job runs (and reconciles, which may
\* write the document); the copy loaded first is what is saved.
cancel_pipeline(w0, pipeline_id) ==
    LET w == init_job_runtime(w0)
        pipelines == w.pipes
        idx == PipelineIndex(pipelines, pipeline_id)
    IN  IF idx = 0 THEN Fail(w)
        ELSE
        LET p == pipelines[idx]
            current_idx == p.current_step_index
            inRange == current_idx < Len(p.steps)
            step == p.steps[current_idx + 1]
            w1 == IF inRange /\ IsSome(step.job_id)
                  THEN [cancel_job(w, Unwrap(step.job_id)) EXCEPT !.ok = TRUE]
                  ELSE w
            p1 == IF inRange /\ ~is_pipeline_step_terminal(step.status)
                  THEN [p EXCEPT !.steps[current_idx + 1].status = "Canceled",
                                 !.steps[current_idx + 1].finished_at = Some(Stamp)]
                  ELSE p
            p2 == [p1 EXCEPT !.status = "Canceled"]
        IN  reconcile_pipelines_with_jobs(
                [w1 EXCEPT !.pipes = [pipelines EXCEPT ![idx] = p2]], None)

\* A variant that puts the step back to Pending and keeps what it was
\* bound to.
ResetStatusOnly(step) == [step EXCEPT !.status = "Pending"]

\* A step as retry_pipeline_step resets it.
ResetStep(step) ==
    [step EXCEPT !.job_id = None, !.status = "Pending", !.run_id = None,
                 !.started_at = None, !.finished_at = None]

\* A variant that resets the step and leaves the later steps as they are.
retry_pipeline_step_alone(w0, pipeline_id, step_id, force) ==
    LET w == init_job_runtime(w0)
        pidx == PipelineIndex(w.pipes, pipeline_id)
    IN  IF pidx = 0 THEN Fail(w)
        ELSE
        LET p == w.pipes[pidx]
            sidx == StepIndex(p.steps, step_id)
        IN  IF sidx = 0 THEN Fail(w)
            ELSE IF ~(p.steps[sidx].status \in {"Failed", "NeedsRetry", "Canceled"} \/ force)
            THEN Fail(w)
            ELSE
            LET p1 == [p EXCEPT
                         !.steps[sidx] = ResetStep(@),
                         !.current_step_index = sidx - 1,
                         !.status = "Running"]
            IN  reconcile_pipelines_with_jobs([w EXCEPT !.pipes[pidx] = p1], None)

retry_pipeline_step(w0, pipeline_id, step_id, force) ==
    LET w == init_job_runtime(w0)
        pidx == PipelineIndex(w.pipes, pipeline_id)
    IN  IF pidx = 0 THEN Fail(w)
        ELSE
        LET p == w.pipes[pidx]
            sidx == StepIndex(p.steps, step_id)
        IN  IF sidx = 0 THEN Fail(w)
            ELSE IF ~(p.steps[sidx].status \in {"Failed", "NeedsRetry", "Canceled"} \/ force)
            THEN Fail(w)
            ELSE
            LET p1 == [p EXCEPT
                         !.steps = [i \in 1..Len(p.steps) |->
                                      IF i >= sidx THEN ResetStep(p.steps[i])
                                      ELSE p.steps[i]],
                         !.current_step_index = sidx - 1,
                         !.status = "Running"]
            IN  reconcile_pipelines_with_jobs([w EXCEPT !.pipes[pidx] = p1], None)

---------------------------------------------------------------------------
\* Auto-retry scheduler.

\* The first pipeline holding a step bound to the job decides pipeline_ref:
\* Some([pipeline_id, step_id, pidx]) if that pipeline has budget left, None
\* if it has none or if no step is bound to the job.
RECURSIVE PipelineRefFrom(_, _, _, _)
PipelineRefFrom(pipelines, job_id, s, pidx) ==
    IF pidx > Len(pipelines) THEN None
    ELSE
    LET p == pipelines[pidx]
        bound == {i \in 1..Len(p.steps) : p.steps[i].job_id = Some(job_id)}
    IN  IF bound /= {}
        THEN IF p.auto_retry_attempt_count < s.auto_retry_max_per_pipeline
             THEN Some([pipeline_id |-> p.pipeline_id,
                        step_id |-> p.steps[CHOOSE i \in bound : \A k \in bound : i <= k].step_id,
                        pidx |-> pidx])
             ELSE None
        ELSE PipelineRefFrom(pipelines, job_id, s, pidx + 1)

PipelineRef(pipelines, job_id, s) == PipelineRefFrom(pipelines, job_id, s, 1)

\* The scan of guard.jobs: first the jobs with a retry_at filled in where it
\* was missing, then the candidates (next_ms, job_id, pipeline_ref).
ScheduleMissing(jobs, s) ==
    [i \in 1..Len(jobs) |->
       IF jobs[i].status = "NeedsRetry" /\ ~IsSome(jobs[i].retry_at)
       THEN [jobs[i] EXCEPT !.retry_at =
               Some(compute_next_retry_at_ms(now, jobs[i].retry_after_seconds,
                                             jobs[i].auto_retry_attempt_count + 1, s))]
       ELSE jobs[i]]

\* A variant that does not look at the job's auto_retry_attempt_count.
CandidatesIgnoringJobBudget(jobs, pipelines, s) ==
    { [next_ms |-> Unwrap(jobs[i].retry_at), job_id |-> jobs[i].job_id,
       pipeline_ref |-> PipelineRef(pipelines, jobs[i].job_id, s)] :
        i \in { k \in 1..Len(jobs) :
                  /\ jobs[k].status = "NeedsRetry"
                  /\ ~(now < Unwrap(jobs[k].retry_at)) } }

Candidates(jobs, pipelines, s) ==
    { [next_ms |-> Unwrap(jobs[i].retry_at), job_id |-> jobs[i].job_id,
       pipeline_ref |-> PipelineRef(pipelines, jobs[i].job_id, s)] :
        i \in { k \in 1..Len(jobs) :
                  /\ jobs[k].status = "NeedsRetry"
                  /\ ~(now < Unwrap(jobs[k].retry_at))
                  /\ ~(jobs[k].auto_retry_attempt_count >= s.auto_retry_max_per_job) } }

\* A variant that orders the candidates by job id alone.
FirstCandidateByJobId(cands) ==
    CHOOSE c \in cands : \A d \in cands : c.job_id <= d.job_id

\* candidates.sort_by(next_ms, then job_id); candidates.first()
FirstCandidate(cands) ==
    CHOOSE c \in cands :
        \A d \in cands : \/ c.next_ms < d.next_ms
                          \/ (c.next_ms = d.next_ms /\ c.job_id <= d.job_id)

NoTick(w, reason) ==
    [w |-> w, acted |-> FALSE, err |-> FALSE, reentered |-> FALSE, reason |-> reason,
     job_id |-> None, pipeline_id |-> None, entries |-> <<>>]

\* A variant that counts the retry and writes no audit line.
TickAccountWithoutAudit(w, job_id, pipeline_id) ==
    LET w1 == [w EXCEPT !.mem = load_jobs_from_file(w)]
        idx == JobIndex(w1.mem, job_id)
        w2 == IF idx = 0 THEN w1
              ELSE [w1 EXCEPT !.mem[idx].auto_retry_attempt_count = @ + 1]
    IN  [w |-> persist_state(w2), acted |-> TRUE, err |-> FALSE, reentered |-> FALSE,
         reason |-> "auto_retry_enqueued", job_id |-> Some(job_id),
         pipeline_id |-> pipeline_id, entries |-> <<>>]

\* The second locked block: the jobs are reloaded, the retried job's
\* auto_retry_attempt_count is incremented, then persist_state and the audit
\* line.
TickAccount(w, job_id, pipeline_id) ==
    LET w1 == [w EXCEPT !.mem = load_jobs_from_file(w)]
        idx == JobIndex(w1.mem, job_id)
        w2 == IF idx = 0 THEN w1
              ELSE [w1 EXCEPT !.mem[idx].auto_retry_attempt_count = @ + 1]
    IN  [w |-> persist_state(w2), acted |-> TRUE, err |-> FALSE, reentered |-> FALSE,
         reason |-> "auto_retry_enqueued", job_id |-> Some(job_id),
         pipeline_id |-> pipeline_id,
         entries |-> << [ts |-> now, kind |-> "auto_retry", job_id |-> job_id,
                         pipeline_id |-> pipeline_id,
                         next_retry_at |-> IF idx = 0 THEN None ELSE w2.mem[idx].retry_at,
                         attempt |-> IF idx = 0 THEN 0
                                     ELSE w2.mem[idx].auto_retry_attempt_count] >>]

\* tick_auto_retry run without another thread in between.  rid is
\* running_job_id.  reentered: the scan filled in a retry_at, so that
\* persist_state is called while the jobs lock is still held.
tick_auto_retry(w0, s, rid) ==
    IF ~s.auto_retry_enabled THEN NoTick(w0, "auto_retry_disabled")
    ELSE
    LET w == init_job_runtime(w0)
        pipelines == w.pipes
        w1 == [w EXCEPT !.mem = load_jobs_from_file(w)]
    IN  IF IsSome(rid) THEN NoTick(w1, "worker_busy")
        ELSE
        LET jobs == ScheduleMissing(w1.mem, s)
            w2 == [w1 EXCEPT !.mem = jobs]
            cands == Candidates(jobs, pipelines, s)
        IN  IF jobs /= w1.mem
            THEN [NoTick(w2, "lock_reentered") EXCEPT !.reentered = TRUE]
            ELSE IF cands = {} THEN NoTick(w2, "no_eligible_item")
            ELSE
            LET sel == FirstCandidate(cands)
            IN  IF IsSome(sel.pipeline_ref)
                THEN
                LET ref == Unwrap(sel.pipeline_ref)
                    w3 == retry_pipeline_step(w2, ref.pipeline_id, ref.step_id, FALSE)
                    stale == [pipelines EXCEPT ![ref.pidx].auto_retry_attempt_count = @ + 1]
                IN  IF ~w3.ok THEN [NoTick(w3, "error") EXCEPT !.err = TRUE]
                    ELSE TickAccount([w3 EXCEPT !.pipes = stale], sel.job_id,
                                     Some(ref.pipeline_id))
                ELSE
                LET w3 == retry_job(w2, sel.job_id, FALSE)
                IN  IF ~w3.ok THEN [NoTick(w3, "error") EXCEPT !.err = TRUE]
                    ELSE TickAccount(w3, sel.job_id, None)

---------------------------------------------------------------------------
\* The state machine.  Commands (the tauri handlers) run one at a time and
\* each as one step; the worker thread runs beside them, one step per
\* locked block or file write.

NoLast == [op |-> "init", ok |-> TRUE, job_id |-> None, pipeline_id |-> None,
           pre |-> None]

\* The three documents kept under the output directory.
Documents == {"jobs", "pipelines", "settings"}

\* An output directory without any document.
NoFiles == [d \in Documents |-> [target |-> None, tmp |-> None]]

\* No call of start_job_worker_if_needed under way; the worker thread of
\* wpc and wjob is the only one.
NoThreads == [started |-> TRUE, callers |-> <<>>, workers |-> <<>>]

\* A process started on empty documents.
Fresh ==
    /\ memJobs = <<>>
    /\ diskJobs = <<>>
    /\ diskPipes = <<>>
    /\ running_job_id = None
    /\ cancel_requested = {}
    /\ wpc = "loop"
    /\ wjob = 0
    /\ booted = TRUE
    /\ now = 0
    /\ nextJobId = 1
    /\ nextPipeId = 1
    /\ settings \in SettingsChoices
    /\ audit = <<>>
    /\ files = NoFiles
    /\ threads = NoThreads
    /\ last = NoLast
    /\ rec = None
    /\ call = None

Init ==
    /\ Fresh
    /\ ops = MaxOps

\* The handler's result becomes the state.
Commit(w) ==
    /\ w.nid <= MaxJobs + 1
    /\ memJobs' = w.mem
    /\ diskJobs' = w.disk
    /\ diskPipes' = w.pipes
    /\ cancel_requested' = w.cancel
    /\ nextJobId' = w.nid

Idle == rec = None /\ call = None

\* A handler run to its return.  last keeps what was called and, in pre,
\* what the caller could see of its target before the call.
CommandPre(op, w, job_id, pipeline_id, pre) ==
    /\ booted
    /\ Idle
    /\ ops > 0
    /\ ops' = ops - 1
    /\ Commit(w)
    /\ last' = [op |-> op, ok |-> w.ok, job_id |-> job_id, pipeline_id |-> pipeline_id,
                pre |-> pre]
    /\ UNCHANGED <<workerVars, envVars, rec, call>>

Command(op, w, job_id, pipeline_id) == CommandPre(op, w, job_id, pipeline_id, None)

\* The record a handler finds for pipeline_id in pipelines.json, if any.
FindPipeline(pipelines, pipeline_id) ==
    IF PipelineIndex(pipelines, pipeline_id) = 0 THEN None
    ELSE Some(pipelines[PipelineIndex(pipelines, pipeline_id)])

\* The record a handler finds for job_id in guard.jobs, if any.
FindJob(jobs, job_id) ==
    IF JobIndex(jobs, job_id) = 0 THEN None ELSE Some(jobs[JobIndex(jobs, job_id)])

KnownJobs == 1..(nextJobId - 1)
KnownPipes == 1..(nextPipeId - 1)

EnqueueJob ==
    /\ Command("enqueue_job", enqueue_job(World), Some(nextJobId), None)
    /\ UNCHANGED <<nextPipeId, audit, files, threads>>

ListJobs ==
    /\ Command("list_jobs", list_jobs(World), None, None)
    /\ UNCHANGED <<nextPipeId, audit, files, threads>>

CancelJob ==
    \E id \in KnownJobs :
        /\ CommandPre("cancel_job", cancel_job(World, id), Some(id), None,
                      FindJob(init_job_runtime(World).mem, id))
        /\ UNCHANGED <<nextPipeId, audit, files, threads>>

RetryJob ==
    \E id \in KnownJobs, force \in BOOLEAN :
        /\ CommandPre(IF force THEN "retry_job_force" ELSE "retry_job",
                      retry_job(World, id, force), Some(id), None,
                      FindJob(init_job_runtime(World).mem, id))
        /\ UNCHANGED <<nextPipeId, audit, files, threads>>

ClearFinishedJobs ==
    /\ Command("clear_finished_jobs", clear_finished_jobs(World), None, None)
    /\ UNCHANGED <<nextPipeId, audit, files, threads>>

CreatePipeline ==
    \E nsteps \in 1..MaxSteps :
        /\ nextPipeId <= MaxPipes
        /\ Command("create_pipeline", create_pipeline(World, nextPipeId, nsteps),
                   None, Some(nextPipeId))
        /\ nextPipeId' = nextPipeId + 1
        /\ UNCHANGED <<audit, files, threads>>

\* list_pipelines and get_pipeline: an unscoped reconciliation.
ListPipelines ==
    /\ Command("list_pipelines",
               reconcile_pipelines_with_jobs(init_job_runtime(World), None), None, None)
    /\ UNCHANGED <<nextPipeId, audit, files, threads>>

StartPipeline ==
    \E pid \in KnownPipes :
        /\ Command("start_pipeline", start_pipeline(World, pid), None, Some(pid))
        /\ UNCHANGED <<nextPipeId, audit, files, threads>>

CancelPipeline ==
    \E pid \in KnownPipes :
        /\ CommandPre("cancel_pipeline", cancel_pipeline(World, pid), None, Some(pid),
                      FindPipeline(diskPipes, pid))
        /\ UNCHANGED <<nextPipeId, audit, files, threads>>

RetryPipelineStep ==
    \E pid \in KnownPipes, step_id \in 1..MaxSteps, force \in BOOLEAN :
        /\ CommandPre(IF force THEN "retry_pipeline_step_force" ELSE "retry_pipeline_step",
                      retry_pipeline_step(World, pid, step_id, force), None, Some(pid),
                      Some([step_id |-> step_id]))
        /\ UNCHANGED <<nextPipeId, audit, files, threads>>

\* The command's result as last.op: acted, Err, or the reason of a tick
\* that did not act.
TickOp(t) ==
    IF t.acted THEN "tick_acted"
    ELSE IF t.err THEN "tick_error"
    ELSE CASE t.reason = "auto_retry_disabled" -> "tick_auto_retry_disabled"
           [] t.reason = "worker_busy" -> "tick_worker_busy"
           [] t.reason = "no_eligible_item" -> "tick_no_eligible_item"

TickAutoRetry ==
    LET t == tick_auto_retry(World, settings, running_job_id)
    IN  /\ ~t.reentered
        /\ Command(TickOp(t), t.w, t.job_id, t.pipeline_id)
        /\ audit' = audit \o t.entries
        /\ UNCHANGED <<nextPipeId, files, threads>>

\* The jobs mutex can still be taken: no thread locked it a second time
\* while holding it (std::sync::Mutex then deadlocks or panics, and the
\* panic poisons the mutex; either way no later lock() succeeds).
LockFree == ~(IsSome(call) /\ Unwrap(call).pc \in {"deadlocked", "poisoned"})

\* tick_auto_retry when its scan filled in a retry_at: persist_state is
\* called inside the block that holds the jobs lock and locks it again.
\* guard.jobs has been reloaded and rescheduled in memory; nothing is
\* written and the command does not return.
TickLockReentered ==
    LET t == tick_auto_retry(World, settings, running_job_id)
    IN  /\ booted
        /\ Idle
        /\ ops > 0
        /\ t.reentered
        /\ ops' = ops - 1
        /\ memJobs' = t.w.mem
        /\ \E outcome \in {"deadlocked", "poisoned"} :
              call' = Some([pc |-> outcome, job_id |-> 0, jobs |-> <<>>])
        /\ last' = [NoLast EXCEPT !.op = "tick_never_returned"]
        /\ UNCHANGED <<diskJobs, diskPipes, cancel_requested, nextJobId, workerVars,
                       envVars, nextPipeId, audit, files, threads, rec>>

\* The worker's locked block at the top of its loop: the first Queued job,
\* if running_job_id is None.
WorkerPick ==
    /\ LockFree
    /\ wpc = "loop"
    /\ ~IsSome(running_job_id)
    /\ FirstQueued(memJobs, 1) /= 0
    /\ LET idx == FirstQueued(memJobs, 1)
       IN  /\ memJobs' = [memJobs EXCEPT ![idx].status = "Running",
                                          ![idx].attempt = @ + 1,
                                          ![idx].updated_at = now]
           /\ running_job_id' = Some(memJobs[idx].job_id)
           /\ wjob' = memJobs[idx].job_id
    /\ wpc' = "picked"
    /\ UNCHANGED <<diskJobs, diskPipes, cancel_requested, nextJobId, envVars,
                   nextPipeId, audit, files, threads, ops, last, rec, call>>

\* persist_state after the pick; the adapter is then invoked.
WorkerPersistPick ==
    /\ LockFree
    /\ wpc = "picked"
    /\ diskJobs' = memJobs
    /\ wpc' = "exec"
    /\ UNCHANGED <<memJobs, diskPipes, cancel_requested, nextJobId, running_job_id,
                   wjob, envVars, nextPipeId, audit, files, threads, ops, last, rec, call>>

\* The locked block of apply_job_result on the adapter's result.
ApplyResult(jobs, idx, run_result, canceled) ==
    LET job == jobs[idx]
        c == classify_job_status(run_result, canceled)
        run_id == IF IsSome(job.run_id) THEN job.run_id
                  ELSE Some([job |-> job.job_id, attempt |-> job.attempt])
    IN  [jobs EXCEPT ![idx] =
           [job EXCEPT
              !.status = c.status,
              !.run_id = run_id,
              !.retry_after_seconds = c.retry_after,
              !.retry_at = IF c.status = "NeedsRetry"
                           THEN Some(compute_next_retry_at_ms(
                                       now, c.retry_after,
                                       job.auto_retry_attempt_count + 1, settings))
                           ELSE None,
              !.last_error = c.err,
              !.updated_at = now]]

\* The adapter returns and apply_job_result runs its locked block.  If the
\* job is no longer in guard.jobs it returns Err before anything is reset.
WorkerApply ==
    /\ LockFree
    /\ wpc = "exec"
    /\ \E run_result \in RunResults :
         LET idx == JobIndex(memJobs, wjob)
         IN  IF idx = 0
             THEN /\ wpc' = "loop"
                  /\ UNCHANGED <<memJobs, running_job_id, cancel_requested>>
             ELSE /\ memJobs' = ApplyResult(memJobs, idx, run_result,
                                            wjob \in cancel_requested)
                  /\ running_job_id' = None
                  /\ cancel_requested' = cancel_requested \ {wjob}
                  /\ wpc' = "applied"
    /\ UNCHANGED <<diskJobs, diskPipes, nextJobId, wjob, envVars, nextPipeId, audit, files, threads,
                   ops, last, rec, call>>

\* persist_state in apply_job_result.
WorkerPersistResult ==
    /\ LockFree
    /\ wpc = "applied"
    /\ diskJobs' = memJobs
    /\ wpc' = "reconcile"
    /\ UNCHANGED <<memJobs, diskPipes, cancel_requested, nextJobId, running_job_id,
                   wjob, envVars, nextPipeId, audit, files, threads, ops, last, rec, call>>

\* The reconciliation scoped to the job, at the end of apply_job_result.
WorkerReconcile ==
    /\ LockFree
    /\ wpc = "reconcile"
    /\ Commit(reconcile_pipelines_with_jobs(World, Some(wjob)))
    /\ wpc' = "loop"
    /\ UNCHANGED <<running_job_id, wjob, envVars, nextPipeId, audit, files, threads, ops, last, rec,
                   call>>

AdvanceClock ==
    /\ now < MaxClock * ClockStepMs
    /\ now' = now + ClockStepMs
    /\ UNCHANGED <<runtimeVars, workerVars, booted, settings, nextPipeId, audit, files, threads, ops,
                   last, rec, call>>

\* The process dies and is started again: main calls
\* start_job_worker_if_needed, whose init_job_runtime loads jobs.json and
\* which spawns the worker; the documents on disk are all that is kept.
CrashRestart ==
    /\ ops > 0
    /\ ops' = ops - 1
    /\ memJobs' = diskJobs
    /\ running_job_id' = None
    /\ cancel_requested' = {}
    /\ wpc' = "loop"
    /\ wjob' = 0
    /\ booted' = FALSE
    /\ rec' = None
    /\ call' = None
    /\ last' = [NoLast EXCEPT !.op = "crash"]
    /\ UNCHANGED <<diskJobs, diskPipes, now, nextJobId, nextPipeId, settings, audit, files, threads>>

\* resume_pipelines_if_possible, called by main before any command is
\* served.
ResumePipelines ==
    /\ ~booted
    /\ Idle
    /\ Commit(reconcile_pipelines_with_jobs(init_job_runtime(World), None))
    /\ booted' = TRUE
    /\ UNCHANGED <<workerVars, now, settings, nextPipeId, audit, files, threads, ops, last, rec, call>>

Next ==
    \/ EnqueueJob
    \/ ListJobs
    \/ CancelJob
    \/ RetryJob
    \/ ClearFinishedJobs
    \/ CreatePipeline
    \/ ListPipelines
    \/ StartPipeline
    \/ CancelPipeline
    \/ RetryPipelineStep
    \/ TickAutoRetry
    \/ WorkerPick
    \/ WorkerPersistPick
    \/ WorkerApply
    \/ WorkerPersistResult
    \/ WorkerReconcile
    \/ AdvanceClock
    \/ CrashRestart
    \/ ResumePipelines

Spec == Init /\ [][Next]_vars

---------------------------------------------------------------------------
\* Properties of the whole program.

RunningCount(jobs) == Cardinality({i \in 1..Len(jobs) : jobs[i].status = "Running"})

\* C1: in every reachable state, a crash followed by a restart included, at
\* most one job has status Running, in the job list in memory and in the
\* persisted one.
AtMostOneRunning ==
    /\ RunningCount(memJobs) <= 1
    /\ RunningCount(diskJobs) <= 1

\* C4: in every reachable state every step of a pipeline with an index lower
\* than current_step_index has status Succeeded.
PredecessorsSucceeded ==
    \A i \in 1..Len(diskPipes) :
        \A k \in 1..Len(diskPipes[i].steps) :
            k - 1 < diskPipes[i].current_step_index
                => diskPipes[i].steps[k].status = "Succeeded"

\* The tick of this step acted (acted: true in its result).
TickActed == ops' /= ops /\ last'.op = "tick_acted"

\* The pipelines with a step bound to the job.
PipelinesBoundTo(pipelines, job_id) ==
    {i \in 1..Len(pipelines) :
        \E k \in 1..Len(pipelines[i].steps) : pipelines[i].steps[k].job_id = Some(job_id)}

\* C9: a tick never retries a job bound to a step of a pipeline whose
\* auto_retry_attempt_count has reached auto_retry_max_per_pipeline, be it
\* through the step retry or as a job on its own.
TickRespectsPipelineBudget ==
    [][TickActed =>
         \A i \in PipelinesBoundTo(diskPipes, Unwrap(last'.job_id)) :
             diskPipes[i].auto_retry_attempt_count < settings.auto_retry_max_per_pipeline]_vars

\* C10: after a tick that acted on a job bound to a pipeline step the
\* persisted pipeline is Running, its current_step_index is at the retried
\* step, that step is Running and bound to a Queued job of the persisted job
\* list, and the pipeline's auto_retry_attempt_count is one higher than
\* before.
TickLeavesPipelineConsistent ==
    [][(TickActed /\ IsSome(last'.pipeline_id)) =>
         LET i == PipelineIndex(diskPipes, Unwrap(last'.pipeline_id))
             k == CHOOSE k \in 1..Len(diskPipes[i].steps) :
                      diskPipes[i].steps[k].job_id = last'.job_id
             q == diskPipes'[i]
         IN  /\ q.status = "Running"
             /\ q.current_step_index = k - 1
             /\ q.steps[k].status = "Running"
             /\ IsSome(q.steps[k].job_id)
             /\ LET j == JobIndex(diskJobs', Unwrap(q.steps[k].job_id))
                IN  j /= 0 /\ diskJobs'[j].status = "Queued"
             /\ q.auto_retry_attempt_count = diskPipes[i].auto_retry_attempt_count + 1]_vars

---------------------------------------------------------------------------
\* Reconciliation on persisted documents.  The process starts on a
\* pipelines.json and a jobs.json left by earlier runs and calls
\* reconcile_pipelines_with_jobs, with one scope, again and again with
\* nothing in between, as the tests of the repository do.

\* Job ids handed out before the process started.
MaxInitJobs == 2

\* A persisted job in the given status.
PersistedJob(id, status) ==
    [NewJobRecord(id, 0, 0) EXCEPT
        !.status = status,
        !.attempt = IF status = "Queued" THEN 0 ELSE 1,
        !.run_id = IF status \in {"Queued", "Running"} THEN None
                   ELSE Some([job |-> id, attempt |-> 1]),
        !.last_error = IF status \in {"Failed", "NeedsRetry"} THEN Some("message")
                       ELSE None,
        !.retry_at = IF status = "NeedsRetry" THEN Some(0) ELSE None,
        !.updated_at = 0]

\* jobs.json: each id handed out so far is gone (cleared) or there in some
\* status, in the order of the ids.
RECURSIVE PersistedJobLists(_)
PersistedJobLists(n) ==
    IF n = 0 THEN {<<>>}
    ELSE LET rest == PersistedJobLists(n - 1)
         IN  rest \cup {Append(js, PersistedJob(n, st)) : js \in rest, st \in JobStatus}

PersistedStep(idx, status, job_id) ==
    [NewPipelineStep(idx) EXCEPT
        !.status = status,
        !.job_id = job_id,
        !.started_at = IF status = "Pending" THEN None ELSE Some(Stamp),
        !.finished_at = IF is_pipeline_step_terminal(status) THEN Some(Stamp) ELSE None]

\* The step at current_step_index: Pending and unbound, or in any other
\* status, bound to a job id handed out so far or to none.
CurrentSteps(idx) ==
    {PersistedStep(idx, "Pending", None)} \cup
    {PersistedStep(idx, st, b) :
        st \in PipelineStepStatus \ {"Pending"},
        b \in {None} \cup {Some(j) : j \in 1..MaxInitJobs}}

\* A step before current_step_index: Succeeded, or still Running after
\* retry_pipeline_step with force moved the pipeline on.
EarlierSteps(idx) ==
    {PersistedStep(idx, st, Some(1)) : st \in {"Succeeded", "Running"}}

\* A step after current_step_index: as create_pipeline and
\* retry_pipeline_step leave it.
LaterSteps(idx) == {NewPipelineStep(idx)}

StepsAt(idx, cur) ==
    IF idx < cur THEN EarlierSteps(idx)
    ELSE IF idx = cur THEN CurrentSteps(idx)
    ELSE LaterSteps(idx)

\* The step lists of n steps with the current step at index cur.
RECURSIVE StepLists(_, _)
StepLists(n, cur) ==
    IF n = 0 THEN {<<>>}
    ELSE {Append(ss, st) : ss \in StepLists(n - 1, cur), st \in StepsAt(n - 1, cur)}

\* pipelines.json: no pipeline, or one of up to MaxSteps steps in any
\* status; a current_step_index equal to the number of steps is the value
\* the clamp at the top of the pass corrects.
PersistedPipelines ==
    {<<>>} \cup
    UNION {
        {<< [NewPipelineRecord(1, x[1]) EXCEPT
               !.steps = ss, !.current_step_index = x[2], !.status = st] >> :
            ss \in StepLists(x[1], Min(x[2], x[1] - 1)), st \in PipelineStatus} :
        x \in {y \in (1..MaxSteps) \X (0..MaxSteps) : y[2] <= y[1]}}

InitReconcile ==
    /\ now = 0
    /\ diskJobs \in PersistedJobLists(MaxInitJobs)
    /\ diskPipes \in PersistedPipelines
    /\ memJobs = diskJobs
    /\ running_job_id = None
    /\ cancel_requested = {}
    /\ wpc = "loop"
    /\ wjob = 0
    /\ booted = TRUE
    /\ nextJobId = MaxInitJobs + 1
    /\ nextPipeId = MaxPipes + 1
    /\ settings \in SettingsChoices
    /\ audit = <<>>
    /\ files = NoFiles
    /\ threads = NoThreads
    /\ last = NoLast
    /\ rec = None
    /\ call = None
    /\ ops = MaxOps

\* One call of reconcile_pipelines_with_jobs; `last` keeps the scope and
\* the documents as they were before the call.
Reconcile ==
    \E only \in {None} \cup {Some(j) : j \in 1..MaxInitJobs} :
        /\ last.op = "reconcile" => only = last.job_id
        /\ ops > 0
        /\ ops' = ops - 1
        /\ Commit(reconcile_pipelines_with_jobs(World, only))
        /\ last' = [op |-> "reconcile", ok |-> TRUE, job_id |-> only,
                    pipeline_id |-> None,
                    pre |-> Some([jobs |-> diskJobs, pipes |-> diskPipes,
                                  mem |-> memJobs, op |-> last.op])]
        /\ UNCHANGED <<workerVars, envVars, nextPipeId, audit, files, threads, rec, call>>

NextReconcile == Reconcile

SpecReconcile == InitReconcile /\ [][NextReconcile]_vars

---------------------------------------------------------------------------
\* Properties of reconciliation.

\* The documents as they were before the last call.
Before == Unwrap(last.pre)

\* The last step was a call of reconcile_pipelines_with_jobs.
Reconciled == last.op = "reconcile"

\* The position in the jobs document of the job the pass looks up for the
\* current step of pipeline i: the pipeline is Running, its current step is
\* Running and bound, the scope lets the job through and the job is there.
\* 0 if the pass looks up no job.
FoundJob(pre, i, only_job_id) ==
    LET p == pre.pipes[i]
    IN  IF p.status /= "Running" \/ p.current_step_index >= Len(p.steps) THEN 0
        ELSE LET step == p.steps[p.current_step_index + 1]
             IN  IF step.status /= "Running" \/ ~IsSome(step.job_id) THEN 0
                 ELSE IF IsSome(only_job_id) /\ only_job_id /= step.job_id THEN 0
                 ELSE JobIndex(pre.jobs, Unwrap(step.job_id))

\* C3: a second call of reconcile_pipelines_with_jobs right after a first
\* one leaves the pipelines and the jobs as the first call left them; it
\* enqueues no job.
ReconcileIdempotent ==
    (Reconciled /\ Before.op = "reconcile") =>
        /\ diskPipes = Before.pipes
        /\ diskJobs = Before.jobs
        /\ memJobs = Before.mem

\* A second call after a call that enqueued a job.
ReconciledAgainAfterEnqueue ==
    /\ Reconciled
    /\ Before.op = "reconcile"
    /\ nextJobId > MaxInitJobs + 1

---------------------------------------------------------------------------
\* The reconciliation pass of the main thread step by step, so that the
\* process can die inside it: one step per iteration of
\* `for pipeline in &mut pipelines` (whose enqueue_job_internal writes
\* jobs.json at once) and one for the save_pipelines_to_file after the loop.

\* The pass after load_pipelines_from_file and the locked block that
\* reloads guard.jobs and clones it.
BeginPass(w, only_job_id, caller) ==
    Some([pipelines |-> w.pipes, loaded |-> w.pipes,
          jobs_snapshot |-> load_jobs_from_file(w),
          only_job_id |-> only_job_id, i |-> 1, caller |-> caller])

\* create_pipeline up to the locked block of the pass it calls: the new
\* pipeline is in pipelines.json.
CreatePipelineSave ==
    \E nsteps \in 1..MaxSteps :
        LET w == init_job_runtime(World)
            w1 == [w EXCEPT !.pipes = Append(@, NewPipelineRecord(nextPipeId, nsteps))]
            w2 == [w1 EXCEPT !.mem = load_jobs_from_file(w1)]
        IN  /\ booted
            /\ Idle
            /\ ops > 0
            /\ nextPipeId <= MaxPipes
            /\ ops' = ops - 1
            /\ Commit(w2)
            /\ rec' = BeginPass(w2, None, "create_pipeline")
            /\ nextPipeId' = nextPipeId + 1
            /\ last' = [NoLast EXCEPT !.op = "create_pipeline",
                                      !.pipeline_id = Some(nextPipeId)]
            /\ UNCHANGED <<workerVars, envVars, audit, files, threads, call>>

\* resume_pipelines_if_possible up to the locked block of its pass; with no
\* pipeline the pass returns at once.
ResumeLoad ==
    LET w == init_job_runtime(World)
    IN  /\ ~booted
        /\ Idle
        /\ IF w.pipes = <<>>
           THEN /\ Commit(w)
                /\ booted' = TRUE
                /\ rec' = None
           ELSE /\ Commit([w EXCEPT !.mem = load_jobs_from_file(w)])
                /\ booted' = booted
                /\ rec' = BeginPass(w, None, "resume")
        /\ UNCHANGED <<workerVars, now, settings, nextPipeId, audit, files, threads, ops, last, call>>

\* One iteration of the loop over the working copy.
ReconcileIteration ==
    /\ IsSome(rec)
    /\ LET r == Unwrap(rec)
       IN  /\ r.i <= Len(r.pipelines)
           /\ LET res == ReconcileAt([w |-> World, pipelines |-> r.pipelines],
                                     r.jobs_snapshot, r.only_job_id, r.i)
              IN  /\ Commit(res.w)
                  /\ rec' = Some([r EXCEPT !.pipelines = res.pipelines, !.i = r.i + 1])
    /\ UNCHANGED <<workerVars, envVars, nextPipeId, audit, files, threads, ops, last, call>>

\* After the loop: pipelines.json is written if the pass changed anything,
\* and the caller returns.
ReconcileSave ==
    /\ IsSome(rec)
    /\ LET r == Unwrap(rec)
       IN  /\ r.i > Len(r.pipelines)
           /\ diskPipes' = IF r.pipelines /= r.loaded THEN r.pipelines ELSE diskPipes
    /\ rec' = None
    /\ booted' = TRUE
    /\ UNCHANGED <<memJobs, diskJobs, cancel_requested, nextJobId, workerVars, now,
                   settings, nextPipeId, audit, files, threads, ops, last, call>>

NextResume ==
    \/ CreatePipelineSave
    \/ ResumeLoad
    \/ ReconcileIteration
    \/ ReconcileSave
    \/ WorkerPick
    \/ WorkerPersistPick
    \/ WorkerApply
    \/ WorkerPersistResult
    \/ WorkerReconcile
    \/ CrashRestart

SpecResume == Init /\ [][NextResume]_vars

\* The jobs of the persisted job list enqueued for step k of pipeline p.
JobsOfStep(p, k) ==
    {j \in 1..Len(diskJobs) :
        /\ diskJobs[j].canonical_id = p.canonical_id
        /\ diskJobs[j].template_id = p.steps[k].template_id}

\* C2: whenever the process dies inside a reconciliation pass and the pass
\* runs again after the restart, no step of a pipeline has more than one
\* job enqueued for it, and no step is skipped: every step before
\* current_step_index has had its job.
ResumeEnqueuesOncePerStep ==
    \A i \in 1..Len(diskPipes) :
        \A k \in 1..Len(diskPipes[i].steps) :
            /\ Cardinality(JobsOfStep(diskPipes[i], k)) <= 1
            /\ k - 1 < diskPipes[i].current_step_index
                  => JobsOfStep(diskPipes[i], k) /= {}

---------------------------------------------------------------------------
\* enqueue_job of the main thread step by step, beside the worker thread:
\* the locked push, the locked clone of persist_state, and the write of the
\* clone to jobs.json, after which the command returns the job id.

\* init_job_runtime and the locked block of enqueue_job_internal.
EnqueuePush ==
    LET w == push_job(init_job_runtime(World), 0, 0)
    IN  /\ booted
        /\ Idle
        /\ ops > 0
        /\ ops' = ops - 1
        /\ Commit(w)
        /\ call' = Some([pc |-> "pushed", job_id |-> nextJobId, jobs |-> <<>>])
        /\ UNCHANGED <<workerVars, envVars, nextPipeId, audit, files, threads, last, rec>>

\* The locked block of persist_state: guard.jobs.clone().
EnqueueClone ==
    /\ IsSome(call)
    /\ Unwrap(call).pc = "pushed"
    /\ call' = Some([Unwrap(call) EXCEPT !.pc = "cloned", !.jobs = memJobs])
    /\ UNCHANGED <<runtimeVars, workerVars, envVars, nextPipeId, audit, files, threads, ops, last, rec>>

\* save_jobs_to_file of the clone; enqueue_job returns Ok(job_id).
EnqueueSave ==
    /\ IsSome(call)
    /\ Unwrap(call).pc = "cloned"
    /\ diskJobs' = Unwrap(call).jobs
    /\ call' = None
    /\ last' = [NoLast EXCEPT !.op = "enqueue_job",
                              !.job_id = Some(Unwrap(call).job_id)]
    /\ UNCHANGED <<memJobs, diskPipes, cancel_requested, nextJobId, workerVars,
                   envVars, nextPipeId, audit, files, threads, ops, rec>>

NextConc ==
    \/ EnqueuePush
    \/ EnqueueClone
    \/ EnqueueSave
    \/ CreatePipeline
    \/ WorkerPick
    \/ WorkerPersistPick
    \/ WorkerApply
    \/ WorkerPersistResult
    \/ WorkerReconcile

SpecConc == Init /\ [][NextConc]_vars

\* C8: when enqueue_job has returned a job id, the job is in the persisted
\* job list, whatever the worker thread did in between.
AcknowledgedEnqueuePersisted ==
    (last.op = "enqueue_job" /\ last.ok)
        => JobIndex(diskJobs, Unwrap(last.job_id)) /= 0

---------------------------------------------------------------------------
\* The job queue alone: enqueue_job, cancel_job and clear_finished_jobs
\* beside the worker thread, which is scheduled fairly and whose adapter
\* always returns.

MaxQueueOps == 5

InitQueue ==
    /\ Fresh
    /\ ops = MaxQueueOps

NextQueue ==
    \/ EnqueueJob
    \/ CancelJob
    \/ ClearFinishedJobs
    \/ WorkerPick
    \/ WorkerPersistPick
    \/ WorkerApply
    \/ WorkerPersistResult
    \/ WorkerReconcile

SpecQueue ==
    /\ InitQueue
    /\ [][NextQueue]_vars
    /\ WF_vars(WorkerPick)
    /\ WF_vars(WorkerPersistPick)
    /\ WF_vars(WorkerApply)
    /\ WF_vars(WorkerPersistResult)
    /\ WF_vars(WorkerReconcile)

JobQueued(id) ==
    LET idx == JobIndex(memJobs, id)
    IN  idx /= 0 /\ memJobs[idx].status = "Queued"

\* C7: every Queued job is eventually started, unless it is canceled
\* first: the worker, back at the top of its loop, is never left unable to
\* pick.
QueuedJobsStart ==
    \A id \in 1..MaxJobs : JobQueued(id) ~> ~JobQueued(id)

\* The state that behaviour never leaves, on finite runs: a job is Queued,
\* the worker is at the top of its loop, and a running_job_id left over from
\* a job whose outcome could not be applied keeps it from picking.
WorkerAbleToPick ==
    (wpc = "loop" /\ \E id \in 1..MaxJobs : JobQueued(id))
        => ~IsSome(running_job_id)

---------------------------------------------------------------------------
\* The auto-retry scheduler on documents found at start: SpecTick starts
\* from a jobs.json and a pipelines.json as earlier runs of the program (of
\* this or of an earlier release) left them, and runs ticks, manual retries
\* and the worker on them.

MaxTickOps == 2

\* A persisted job with its retry schedule.
ScheduledJob(id, status, retry_at, count) ==
    [PersistedJob(id, status) EXCEPT
        !.retry_at = retry_at, !.auto_retry_attempt_count = count]

\* The persisted forms of job id once the queue has drained: finished, or
\* in need of a retry.  Such a job has used up to max_per_job automatic
\* retries and is due now (retry_at 0) or after one clock step; or it
\* carries neither retry_at nor a count (both are optional in the document,
\* and tick_auto_retry fills a missing retry_at in).
ScheduledJobs(id, max_per_job) ==
    {ScheduledJob(id, st, None, 0) : st \in {"Succeeded", "Failed", "Canceled"}} \cup
    {ScheduledJob(id, "NeedsRetry", None, 0)} \cup
    {ScheduledJob(id, "NeedsRetry", Some(at), c) :
        at \in {0, ClockStepMs}, c \in 0..max_per_job}

RECURSIVE ScheduledJobLists(_, _)
ScheduledJobLists(n, max_per_job) ==
    IF n = 0 THEN {<<>>}
    ELSE LET rest == ScheduledJobLists(n - 1, max_per_job)
         IN  rest \cup {Append(js, j) : js \in rest, j \in ScheduledJobs(n, max_per_job)}

\* pipelines.json beside the jobs: no pipeline, or, if job 1 is there, one
\* pipeline whose first step was bound to job 1 and has been reconciled
\* with it, with any number of automatic retries within its budget.
ScheduledPipelines(jobs, s) ==
    {<<>>} \cup
    IF jobs = <<>> \/ jobs[1].job_id /= 1 THEN {}
    ELSE { << [r.p EXCEPT !.auto_retry_attempt_count = c] >> :
             r \in { x \in { ReconcilePipeline(BindStep(NewPipelineRecord(1, n), 1),
                                                 jobs, None) : n \in 1..MaxSteps } :
                        ~x.enq },
             c \in 0..s.auto_retry_max_per_pipeline }

\* The job a pipeline step enqueued carries the step's template and the
\* pipeline's canonical id.
OwnedByPipeline(jobs, pipes) ==
    IF pipes = <<>> THEN jobs
    ELSE [jobs EXCEPT ![1].template_id = 1, ![1].canonical_id = pipes[1].canonical_id]

InitTick ==
    /\ settings \in SettingsChoices
    /\ now = 0
    /\ \E jobs \in ScheduledJobLists(MaxInitJobs, settings.auto_retry_max_per_job) :
         \E pipes \in ScheduledPipelines(jobs, settings) :
            /\ diskJobs = OwnedByPipeline(jobs, pipes)
            /\ diskPipes = pipes
    /\ memJobs = diskJobs
    /\ running_job_id = None
    /\ cancel_requested = {}
    /\ wpc = "loop"
    /\ wjob = 0
    /\ booted = TRUE
    /\ nextJobId = MaxInitJobs + 1
    /\ nextPipeId = MaxPipes + 1
    /\ audit = <<>>
    /\ files = NoFiles
    /\ threads = NoThreads
    /\ last = NoLast
    /\ rec = None
    /\ call = None
    /\ ops = MaxTickOps

NextTick ==
    \/ TickAutoRetry
    \/ TickLockReentered
    \/ RetryJob
    \/ AdvanceClock
    \/ WorkerPick
    \/ WorkerPersistPick
    \/ WorkerApply
    \/ WorkerPersistResult
    \/ WorkerReconcile

SpecTick == InitTick /\ [][NextTick]_vars


---------------------------------------------------------------------------
\* Properties of the scheduler.

\* The job the tick just taken selected, as jobs.json held it before.
SelectedBefore == FindJob(diskJobs, Unwrap(last'.job_id))

\* C11: a tick acts only on a job that is NeedsRetry, whose retry_at has
\* elapsed and whose auto_retry_attempt_count is below
\* auto_retry_max_per_job; and, the settings being fixed, no job's
\* auto_retry_attempt_count ever exceeds auto_retry_max_per_job, in memory
\* or in jobs.json, whatever ticks, manual retries and executions happened.
TickKeepsJobBudget ==
    /\ [](\A jobs \in {memJobs, diskJobs} : \A i \in 1..Len(jobs) :
            jobs[i].auto_retry_attempt_count <= settings.auto_retry_max_per_job)
    /\ [][TickActed =>
            /\ IsSome(SelectedBefore)
            /\ Unwrap(SelectedBefore).status = "NeedsRetry"
            /\ IsSome(Unwrap(SelectedBefore).retry_at)
            /\ Unwrap(Unwrap(SelectedBefore).retry_at) <= now
            /\ Unwrap(SelectedBefore).auto_retry_attempt_count
                 < settings.auto_retry_max_per_job]_vars

\* A tick has acted on a job and used up the job's budget that way.
TickUsedLastAutoRetry ==
    /\ last.op = "tick_acted"
    /\ IsSome(FindJob(diskJobs, Unwrap(last.job_id)))
    /\ Unwrap(FindJob(diskJobs, Unwrap(last.job_id))).auto_retry_attempt_count
         = settings.auto_retry_max_per_job


\* The step is a call of tick_auto_retry that returned.
TickReturned ==
    /\ ops' /= ops
    /\ last'.op \in {"tick_acted", "tick_error", "tick_auto_retry_disabled",
                      "tick_worker_busy", "tick_no_eligible_item"}

\* Some job is Running, in guard.jobs and in jobs.json alike.
SomeJobRunning ==
    \E i \in 1..Len(memJobs) :
        /\ memJobs[i].status = "Running"
        /\ FindJob(diskJobs, memJobs[i].job_id) = Some(memJobs[i])

\* C12: a tick taken while some job is Running returns acted=false with
\* reason worker_busy and leaves the jobs, the pipelines and the audit log
\* as they were.
TickBusyWhileJobRunning ==
    [][(TickReturned /\ SomeJobRunning) =>
          /\ last'.op = "tick_worker_busy"
          /\ memJobs' = memJobs
          /\ diskJobs' = diskJobs
          /\ diskPipes' = diskPipes
          /\ audit' = audit]_vars


\* The step is a call of tick_auto_retry, returned or not.
TickCalled ==
    \/ TickReturned
    \/ ops' /= ops /\ last'.op = "tick_never_returned"

\* jobs.json holds a NeedsRetry job without retry_at.
SomeRetryUnscheduled ==
    \E i \in 1..Len(diskJobs) :
        diskJobs[i].status = "NeedsRetry" /\ ~IsSome(diskJobs[i].retry_at)

\* C13: a tick that finds the worker idle and a NeedsRetry job without
\* retry_at returns acted=false, and jobs.json then holds the jobs as they
\* were but for the retry_at computed by the backoff formula for each such
\* job: nothing is re-queued in that tick.
TickSchedulesMissingRetryAt ==
    [][(TickCalled /\ ~IsSome(running_job_id) /\ SomeRetryUnscheduled) =>
          /\ last'.op \in {"tick_no_eligible_item", "tick_worker_busy",
                            "tick_auto_retry_disabled"}
          /\ diskJobs' = ScheduleMissing(diskJobs, settings)]_vars


\* The jobs of a jobs document a tick may retry: NeedsRetry, retry_at
\* elapsed, auto_retry_attempt_count below auto_retry_max_per_job.
Eligible(jobs) ==
    { jobs[i] : i \in { k \in 1..Len(jobs) :
                           /\ jobs[k].status = "NeedsRetry"
                           /\ IsSome(jobs[k].retry_at)
                           /\ Unwrap(jobs[k].retry_at) <= now
                           /\ jobs[k].auto_retry_attempt_count
                                < settings.auto_retry_max_per_job } }

QueuedIn(jobs) == {i \in 1..Len(jobs) : jobs[i].status = "Queued"}

AutoRetriesOf(jobs, id) ==
    IF IsSome(FindJob(jobs, id)) THEN Unwrap(FindJob(jobs, id)).auto_retry_attempt_count
    ELSE 0

\* C15: a tick that returns acted=true adds one to the selected job's
\* auto_retry_attempt_count, leaves the count of every other job alone and
\* appends one audit entry; a tick that returns acted=false changes no
\* job's count and appends nothing; and no step changes or removes an audit
\* entry already written.
TickAccountsOnce ==
    [][/\ TickActed =>
            /\ \A id \in KnownJobs :
                  AutoRetriesOf(diskJobs', id) =
                     AutoRetriesOf(diskJobs, id)
                       + (IF Some(id) = last'.job_id THEN 1 ELSE 0)
            /\ Len(audit') = Len(audit) + 1
            /\ audit'[Len(audit')].job_id = Unwrap(last'.job_id)
       /\ (TickReturned /\ last'.op \notin {"tick_acted", "tick_error"}) =>
            /\ \A id \in KnownJobs :
                  /\ AutoRetriesOf(diskJobs', id) = AutoRetriesOf(diskJobs, id)
                  /\ AutoRetriesOf(memJobs', id) = AutoRetriesOf(diskJobs, id)
            /\ audit' = audit
       /\ Len(audit') >= Len(audit)
       /\ SubSeq(audit', 1, Len(audit)) = audit]_vars

\* A tick has acted: the last audit entry is for the job it selected and
\* carries the job's new count.
TickWroteAuditEntry ==
    /\ last.op = "tick_acted"
    /\ audit /= <<>>
    /\ audit[Len(audit)].job_id = Unwrap(last.job_id)
    /\ audit[Len(audit)].attempt = AutoRetriesOf(diskJobs, Unwrap(last.job_id))
    /\ audit[Len(audit)].attempt > 0


---------------------------------------------------------------------------
\* Properties of retry_job and cancel_job.

\* The step is a call of retry_job that returned, with or without force.
RetryReturned(ops_) == ops' /= ops /\ last'.op \in ops_

\* The record the call just taken found in guard.jobs for its job id.
TargetBefore == FindJob(init_job_runtime(World).mem, Unwrap(last'.job_id))

\* Nothing changed for the job the call names, in memory or in jobs.json.
TargetUnchanged ==
    /\ FindJob(memJobs', Unwrap(last'.job_id)) = TargetBefore
    /\ FindJob(diskJobs', Unwrap(last'.job_id)) = FindJob(diskJobs, Unwrap(last'.job_id))

\* No job changed, in memory or in jobs.json.
JobsUnchanged ==
    /\ memJobs' = init_job_runtime(World).mem
    /\ diskJobs' = diskJobs

\* C16: retry_job without force on a NeedsRetry job fails and leaves the
\* job's record as it was while retry_at lies in the future, and succeeds
\* and leaves the job Queued once retry_at has elapsed.
RetryWaitsForRetryAt ==
    [][(/\ RetryReturned({"retry_job"})
        /\ IsSome(TargetBefore)
        /\ Unwrap(TargetBefore).status = "NeedsRetry"
        /\ IsSome(Unwrap(TargetBefore).retry_at)) =>
          IF now < Unwrap(Unwrap(TargetBefore).retry_at)
          THEN ~last'.ok /\ TargetUnchanged
          ELSE /\ last'.ok
               /\ Unwrap(FindJob(memJobs', Unwrap(last'.job_id))).status = "Queued"
               /\ Unwrap(FindJob(diskJobs', Unwrap(last'.job_id))).status = "Queued"]_vars

\* The job named by the last call, as guard.jobs holds it.
LastJob == Unwrap(FindJob(memJobs, Unwrap(last.job_id)))

\* A retry without force has just been refused for a NeedsRetry job that
\* is not due yet.
EarlyRetryRefused ==
    /\ last.op = "retry_job"
    /\ ~last.ok
    /\ IsSome(FindJob(memJobs, Unwrap(last.job_id)))
    /\ LastJob.status = "NeedsRetry"
    /\ IsSome(LastJob.retry_at)
    /\ now < Unwrap(LastJob.retry_at)

\* C17: retry_job without force succeeds only for a Failed or NeedsRetry
\* job, and for a Queued, Running, Succeeded or Canceled one it returns an
\* error and changes no job; with force it succeeds whatever the status
\* and leaves the job Queued.
RetryOnlyFromRetryable ==
    [][/\ (RetryReturned({"retry_job"}) /\ IsSome(TargetBefore)) =>
            /\ last'.ok => Unwrap(TargetBefore).status \in {"Failed", "NeedsRetry"}
            /\ Unwrap(TargetBefore).status \in {"Queued", "Running", "Succeeded",
                                                  "Canceled"}
                 => ~last'.ok /\ JobsUnchanged
       /\ (RetryReturned({"retry_job_force"}) /\ IsSome(TargetBefore)) =>
            /\ last'.ok
            /\ Unwrap(FindJob(memJobs', Unwrap(last'.job_id))).status = "Queued"
            /\ Unwrap(FindJob(diskJobs', Unwrap(last'.job_id))).status = "Queued"]_vars

\* A retry without force has just been refused for a job that is Queued,
\* Running, Succeeded or Canceled.
RetryRefusedForStatus ==
    /\ last.op = "retry_job"
    /\ ~last.ok
    /\ IsSome(FindJob(memJobs, Unwrap(last.job_id)))
    /\ LastJob.status \in {"Queued", "Running", "Succeeded", "Canceled"}

\* C18: a retry_job that succeeds, with or without force, leaves the job
\* Queued with last_error, retry_after_seconds and retry_at cleared and
\* with attempt and auto_retry_attempt_count as they were; the retry a
\* tick issues for a job outside any pipeline does the same, the tick
\* adding its own count of one.
RetryKeepsAttemptCounts ==
    [][(/\ \/ RetryReturned({"retry_job", "retry_job_force"}) /\ last'.ok
           \/ TickActed /\ ~IsSome(last'.pipeline_id)
        /\ IsSome(TargetBefore)) =>
          \A jobs \in {memJobs', diskJobs'} :
             LET after == FindJob(jobs, Unwrap(last'.job_id))
             IN  /\ IsSome(after)
                 /\ Unwrap(after) =
                      [Unwrap(TargetBefore) EXCEPT
                         !.status = "Queued", !.updated_at = now,
                         !.last_error = None, !.retry_after_seconds = None,
                         !.retry_at = None,
                         !.auto_retry_attempt_count =
                            @ + (IF last'.op = "tick_acted" THEN 1 ELSE 0)]
                 /\ Unwrap(after).status = "Queued"
                 /\ Unwrap(after).last_error = None
                 /\ Unwrap(after).retry_after_seconds = None
                 /\ Unwrap(after).retry_at = None]_vars

\* A retry has just put back in the queue a job that had been executed:
\* its attempt is kept.
RetriedJobKeepsAttempt ==
    /\ last.op \in {"retry_job", "retry_job_force"}
    /\ last.ok
    /\ IsSome(FindJob(memJobs, Unwrap(last.job_id)))
    /\ LastJob.status = "Queued"
    /\ LastJob.attempt > 0


\* The step is a call of cancel_job that returned.
CancelReturned == ops' /= ops /\ last'.op = "cancel_job"

\* The step is the locked block of apply_job_result for a job that is
\* still in guard.jobs.
Applied == wpc = "exec" /\ wpc' = "applied"

\* C19: cancel_job on a Running job leaves it Canceled at once, in memory
\* and in jobs.json; the job is Canceled in every state from there to the
\* next command, whatever the execution in flight returns in between; and
\* whenever apply_job_result handles a job whose cancellation was
\* requested, the job comes out Canceled.
CancelOfRunningIsFinal ==
    /\ []((/\ last.op = "cancel_job"
            /\ last.ok
            /\ IsSome(last.pre)
            /\ Unwrap(last.pre).status = "Running") =>
              \A jobs \in {memJobs, diskJobs} :
                 /\ IsSome(FindJob(jobs, Unwrap(last.job_id)))
                 /\ Unwrap(FindJob(jobs, Unwrap(last.job_id))).status = "Canceled")
    /\ [][(CancelReturned /\ IsSome(TargetBefore)
              /\ Unwrap(TargetBefore).status = "Running") => last'.ok]_vars
    /\ [][(Applied /\ wjob \in cancel_requested) =>
              Unwrap(FindJob(memJobs', wjob)).status = "Canceled"]_vars

\* A Running job was canceled and its execution has returned since: the
\* cancellation intent has been consumed by apply_job_result.
CanceledRunReturned ==
    /\ last.op = "cancel_job"
    /\ last.ok
    /\ IsSome(last.pre)
    /\ Unwrap(last.pre).status = "Running"
    /\ wjob = Unwrap(last.job_id)
    /\ wpc \in {"applied", "reconcile"}
    /\ cancel_requested = {}


\* C20: cancel_job on a job that is Succeeded, Failed, NeedsRetry or
\* Canceled, in memory and in jobs.json alike, returns without error and
\* leaves the job's record as it was, in every field, in both.
CancelOfFinishedIsNoOp ==
    [][(/\ CancelReturned
        /\ IsSome(TargetBefore)
        /\ Unwrap(TargetBefore).status \in {"Succeeded", "Failed", "NeedsRetry",
                                              "Canceled"}
        /\ FindJob(diskJobs, Unwrap(last'.job_id)) = TargetBefore) =>
          /\ last'.ok
          /\ FindJob(memJobs', Unwrap(last'.job_id)) = TargetBefore
          /\ FindJob(diskJobs', Unwrap(last'.job_id)) = TargetBefore]_vars

---------------------------------------------------------------------------
\* Properties of the queue.

\* The step is the worker's pick.
Picked == wpc = "loop" /\ wpc' = "picked"

\* The last command was a retry_job that moved the job from another
\* status into Queued, and the job has been Queued since.
RequeuedLast(job) ==
    /\ last.op \in {"retry_job", "retry_job_force"}
    /\ last.ok
    /\ last.job_id = Some(job.job_id)
    /\ Unwrap(last.pre).status /= "Queued"
    /\ job.status = "Queued"

\* C21: the worker starts the Queued jobs in the order in which they
\* entered Queued, retried jobs included.  In particular it does not pick
\* a job that the last command retried into Queued while another job has
\* been Queued since before that retry (updated_at of a Queued job is the
\* instant of the enqueue or retry that last wrote it).
PickIsOldestQueued ==
    [][Picked =>
         LET picked == Unwrap(FindJob(memJobs, wjob'))
         IN  RequeuedLast(picked) =>
               \A i \in QueuedIn(memJobs) :
                  ~(memJobs[i].updated_at < picked.updated_at)]_vars

---------------------------------------------------------------------------
\* The documents on the file system.  SpecFiles follows load and save of
\* jobs.json, pipelines.json and settings.json step by step: a file is
\* missing (None) or holds [schema_version, body, complete], where
\* schema_version is the field as parse_schema_version reads it (None when
\* absent), body names the text written and complete is FALSE for a file
\* whose text is cut short.

SCHEMA_VERSION == 1

MaxFileOps == 3
MaxSchemaVersion == 2

\* A document as some release of the program wrote it.
WrittenFile(v) == [schema_version |-> v, body |-> 0, complete |-> TRUE]

parse_schema_version(file) ==
    IF IsSome(file.schema_version) THEN Unwrap(file.schema_version) ELSE 1

\* Ok or Err of load_with_migration on an existing file.  The only
\* migration migrate_schema_value knows is from 1 to 2, so a version below
\* SCHEMA_VERSION is an error as well.
load_with_migration(file) ==
    IF ~file.complete THEN FALSE
    ELSE IF parse_schema_version(file) > SCHEMA_VERSION THEN FALSE
    ELSE IF parse_schema_version(file) < SCHEMA_VERSION THEN FALSE
    ELSE TRUE

\* A variant that refuses only a file it cannot parse.
ensure_parsable(target) ==
    IF ~IsSome(target) THEN TRUE
    ELSE Unwrap(target).complete

\* Ok or Err of ensure_schema_writable on the path.
ensure_schema_writable(target) ==
    IF ~IsSome(target) THEN TRUE
    ELSE IF ~Unwrap(target).complete THEN FALSE
    ELSE ~(parse_schema_version(Unwrap(target)) > SCHEMA_VERSION)

\* The in-flight call of SpecFiles as `last` reports it.
FileOp(op, ok, doc, target) ==
    [op |-> op, ok |-> ok, job_id |-> None, pipeline_id |-> None,
     pre |-> Some([doc |-> doc, target |-> target])]

InitFiles ==
    /\ memJobs = <<>>
    /\ diskJobs = <<>>
    /\ diskPipes = <<>>
    /\ running_job_id = None
    /\ cancel_requested = {}
    /\ wpc = "loop"
    /\ wjob = 0
    /\ booted = TRUE
    /\ now = 0
    /\ nextJobId = 1
    /\ nextPipeId = 1
    /\ settings \in SettingsChoices
    /\ audit = <<>>
    /\ last = NoLast
    /\ rec = None
    /\ call = None
    /\ ops = MaxFileOps
    /\ threads = NoThreads
    /\ \E fs \in [Documents ->
                   {None} \cup {Some(WrittenFile(v)) :
                                  v \in {None} \cup {Some(n) : n \in 0..MaxSchemaVersion}}] :
         files = [d \in Documents |-> [target |-> fs[d], tmp |-> None]]

FileVarsUnchanged ==
    UNCHANGED <<runtimeVars, workerVars, envVars, nextPipeId, audit, rec, threads>>

\* load_jobs_from_file, load_pipelines_from_file or load_settings on a
\* path that exists.
LoadDocument ==
    \E d \in Documents :
        /\ call = None
        /\ ops > 0
        /\ IsSome(files[d].target)
        /\ ops' = ops - 1
        /\ last' = FileOp("load", load_with_migration(Unwrap(files[d].target)), d,
                          files[d].target)
        /\ UNCHANGED <<files, call>>
        /\ FileVarsUnchanged

\* save_jobs_to_file, save_pipelines_to_file or save_settings (which
\* load_settings also calls when settings.json is missing): Err from
\* ensure_schema_writable.
SaveRefused ==
    \E d \in Documents :
        /\ call = None
        /\ ops > 0
        /\ ~ensure_schema_writable(files[d].target)
        /\ ops' = ops - 1
        /\ last' = FileOp("save", FALSE, d, files[d].target)
        /\ UNCHANGED <<files, call>>
        /\ FileVarsUnchanged

\* The save goes on to atomic_write_text; fs::write creates or truncates
\* the temporary file.  The text to write is named after the number of the
\* call.
SaveCreateTmp ==
    \E d \in Documents :
        /\ call = None
        /\ ops > 0
        /\ ensure_schema_writable(files[d].target)
        /\ ops' = ops - 1
        /\ call' = Some([pc |-> "tmp_created", doc |-> d, prev |-> files[d].target,
                         new |-> [schema_version |-> Some(SCHEMA_VERSION),
                                  body |-> ops, complete |-> TRUE]])
        /\ files' = [files EXCEPT ![d].tmp =
                        Some([schema_version |-> None, body |-> ops, complete |-> FALSE])]
        /\ UNCHANGED last
        /\ FileVarsUnchanged

Saving(pc) == IsSome(call) /\ Unwrap(call).pc = pc

\* fs::write has written the whole text to the temporary file.
SaveWriteTmp ==
    /\ Saving("tmp_created")
    /\ files' = [files EXCEPT ![Unwrap(call).doc].tmp = Some(Unwrap(call).new)]
    /\ call' = Some([Unwrap(call) EXCEPT !.pc = "tmp_written"])
    /\ UNCHANGED <<ops, last>>
    /\ FileVarsUnchanged

\* if path.exists() { fs::remove_file(path) }
SaveRemoveTarget ==
    /\ Saving("tmp_written")
    /\ files' = [files EXCEPT ![Unwrap(call).doc].target = None]
    /\ call' = Some([Unwrap(call) EXCEPT !.pc = "target_removed"])
    /\ UNCHANGED <<ops, last>>
    /\ FileVarsUnchanged

\* fs::rename(&tmp, path); the save returns Ok.
SaveRename ==
    /\ Saving("target_removed")
    /\ files' = [files EXCEPT ![Unwrap(call).doc] =
                    [target |-> files[Unwrap(call).doc].tmp, tmp |-> None]]
    /\ call' = None
    /\ last' = FileOp("save", TRUE, Unwrap(call).doc, Unwrap(call).prev)
    /\ UNCHANGED ops
    /\ FileVarsUnchanged

\* The process dies during a save; the files stay as they are.
SaveCrash ==
    /\ IsSome(call)
    /\ call' = None
    /\ last' = [FileOp("crash", TRUE, Unwrap(call).doc, Unwrap(call).prev) EXCEPT
                  !.pre = Some([doc |-> Unwrap(call).doc, target |-> Unwrap(call).prev,
                                new |-> Unwrap(call).new])]
    /\ UNCHANGED <<files, ops>>
    /\ FileVarsUnchanged

NextFiles ==
    \/ LoadDocument
    \/ SaveRefused
    \/ SaveCreateTmp
    \/ SaveWriteTmp
    \/ SaveRemoveTarget
    \/ SaveRename
    \/ SaveCrash

SpecFiles == InitFiles /\ [][NextFiles]_vars

\* C22: after a crash during a save the path holds the complete document
\* it held before the save or the complete new one, never a missing or a
\* partial one; and after a save that returned Ok the path holds the new
\* document and no temporary file is left beside it.
SaveIsCrashAtomic ==
    /\ last.op = "crash" =>
          files[Unwrap(last.pre).doc].target
             \in {Unwrap(last.pre).target, Some(Unwrap(last.pre).new)}
    /\ (last.op = "save" /\ last.ok /\ call = None) =>
          /\ IsSome(files[Unwrap(last.pre).doc].target)
          /\ Unwrap(files[Unwrap(last.pre).doc].target).complete
          /\ files[Unwrap(last.pre).doc].tmp = None

\* The step is a load or the start of a save of a document whose file
\* carries a schema_version above the supported one.
NewerSchema(d) ==
    /\ IsSome(files[d].target)
    /\ Unwrap(files[d].target).complete
    /\ parse_schema_version(Unwrap(files[d].target)) > SCHEMA_VERSION

\* C23: for each document whose file carries a schema_version greater than
\* SCHEMA_VERSION, a load returns Err, a save returns Err without starting
\* to write, and the files are as they were after either.
NewerSchemaIsReadOnly ==
    [][\A d \in Documents :
          (/\ NewerSchema(d)
           /\ \/ ops' /= ops
              \/ call' /= call
           /\ \/ IsSome(call') /\ Unwrap(call').doc = d
              \/ last' /= last /\ Unwrap(last'.pre).doc = d) =>
             /\ last'.op \in {"load", "save"}
             /\ ~last'.ok
             /\ call' = None
             /\ files' = files]_vars

\* A save has just been refused for a document of a newer schema.
SaveOfNewerSchemaRefused ==
    /\ last.op = "save"
    /\ ~last.ok
    /\ NewerSchema(Unwrap(last.pre).doc)

---------------------------------------------------------------------------
\* The retry schedule as a function of its arguments. The delays are u64
\* seconds widened to u128 and the exponent reaches 31, so the values do not
\* fit the integers of the other sections: a wide value is the sequence of
\* its bits, least significant first, without leading zero bits. Every
\* value below stays under 2^53, where the f64 additions, the
\* multiplication by 1000.0 and format!("{:.0}") of the code are exact.
MaxAttemptIndex == 34

RECURSIVE Wide(_)
Wide(n) == IF n = 0 THEN <<>> ELSE <<n % 2>> \o Wide(n \div 2)

Bit(a, i) == IF i <= Len(a) THEN a[i] ELSE 0

\* a << k
Shl(a, k) == IF a = <<>> THEN <<>> ELSE [i \in 1..k |-> 0] \o a

RECURSIVE WideLessFrom(_, _, _)
WideLessFrom(a, b, i) ==
    IF i = 0 THEN FALSE
    ELSE IF Bit(a, i) /= Bit(b, i) THEN Bit(a, i) < Bit(b, i)
    ELSE WideLessFrom(a, b, i - 1)

WideLess(a, b) == WideLessFrom(a, b, Max(Len(a), Len(b)))
WideMin(a, b) == IF WideLess(b, a) THEN b ELSE a
WideMax(a, b) == IF WideLess(a, b) THEN b ELSE a

RECURSIVE WideAddFrom(_, _, _, _)
WideAddFrom(a, b, i, carry) ==
    IF i > Max(Len(a), Len(b)) THEN (IF carry = 1 THEN <<1>> ELSE <<>>)
    ELSE LET s == Bit(a, i) + Bit(b, i) + carry
         IN  <<s % 2>> \o WideAddFrom(a, b, i + 1, s \div 2)

WideAdd(a, b) == WideAddFrom(a, b, 1, 0)

\* a * 1000, 1000 being 2^9 + 2^8 + 2^7 + 2^6 + 2^5 + 2^3
Times1000(a) ==
    WideAdd(WideAdd(WideAdd(Shl(a, 9), Shl(a, 8)), WideAdd(Shl(a, 7), Shl(a, 6))),
            WideAdd(Shl(a, 5), Shl(a, 3)))

\* compute_next_retry_at_ms on wide values, the hint in thousandths of a
\* second as in compute_next_retry_at_ms above. base < 2^64 and exp <= 31
\* keep base * 2^exp under 2^128: saturating_mul never saturates.
compute_next_retry_at_wide(now_ms, retry_after_seconds, auto_retry_attempt_count, s) ==
    LET delay_ms ==
            IF IsSome(retry_after_seconds)
            THEN WideMin(Wide(Max(Unwrap(retry_after_seconds), 0)),
                         Times1000(s.auto_retry_max_delay_seconds))
            ELSE LET exp == Min(Max(auto_retry_attempt_count - 1, 0), 31)
                     raw == Shl(s.auto_retry_base_delay_seconds, exp)
                     capped == WideMin(raw, s.auto_retry_max_delay_seconds)
                 IN  Times1000(capped)
        next == WideAdd(Wide(now_ms), delay_ms)
    IN  WideMax(next, Wide(now_ms))

\* The arguments tried: the two clocks and the settings of the unit tests
\* (the defaults, and base 10 with max 25), a maximum delay of 2^33
\* seconds with a base of one second, hints below zero, within and above
\* the maximum delay, and every attempt number up to MaxAttemptIndex.
BackoffSettings ==
    { [auto_retry_base_delay_seconds |-> Wide(30),
       auto_retry_max_delay_seconds |-> Wide(3600)],
      [auto_retry_base_delay_seconds |-> Wide(10),
       auto_retry_max_delay_seconds |-> Wide(25)],
      [auto_retry_base_delay_seconds |-> Wide(1),
       auto_retry_max_delay_seconds |-> Shl(Wide(1), 33)] }

BackoffHints == {None, Some(0 - 1000), Some(0), Some(12500), Some(4000000)}

BackoffArguments ==
    [now_ms : {1000, 2000}, retry_after_seconds : BackoffHints,
     auto_retry_attempt_count : 1..MaxAttemptIndex, settings : BackoffSettings]

InitBackoff ==
    /\ memJobs = <<>>
    /\ diskJobs = <<>>
    /\ diskPipes = <<>>
    /\ running_job_id = None
    /\ cancel_requested = {}
    /\ wpc = "loop"
    /\ wjob = 0
    /\ booted = TRUE
    /\ now = 0
    /\ nextJobId = 1
    /\ nextPipeId = 1
    /\ settings \in SettingsChoices
    /\ audit = <<>>
    /\ last = NoLast
    /\ rec = None
    /\ files = NoFiles
    /\ threads = NoThreads
    /\ ops = 1
    /\ \E a \in BackoffArguments : call = Some([pc |-> "called", args |-> a])

ComputeRetryAt ==
    /\ IsSome(call)
    /\ Unwrap(call).pc = "called"
    /\ ops > 0
    /\ ops' = ops - 1
    /\ LET a == Unwrap(call).args
       IN  call' = Some([pc |-> "returned", args |-> a,
                         retry_at |-> compute_next_retry_at_wide(
                                          a.now_ms, a.retry_after_seconds,
                                          a.auto_retry_attempt_count, a.settings)])
    /\ UNCHANGED <<runtimeVars, workerVars, envVars, nextPipeId, audit, rec, last,
                   files, threads>>

NextBackoff == ComputeRetryAt

SpecBackoff == InitBackoff /\ [][NextBackoff]_vars

\* The delay of the backoff formula for the arguments a, in milliseconds:
\* the hint held within 0 and the maximum delay, or the base delay doubled
\* attempt_index - 1 times, held at the maximum delay.
FormulaDelayMs(a) ==
    IF IsSome(a.retry_after_seconds)
    THEN WideMin(Wide(Max(Unwrap(a.retry_after_seconds), 0)),
                 Times1000(a.settings.auto_retry_max_delay_seconds))
    ELSE Times1000(WideMin(Shl(a.settings.auto_retry_base_delay_seconds,
                               a.auto_retry_attempt_count - 1),
                           a.settings.auto_retry_max_delay_seconds))

Computed == IsSome(call) /\ Unwrap(call).pc = "returned"

\* C24: the retry time computed for (now, hint, attempt_index, settings) is
\* now plus the delay of the backoff formula (the hint clamped to
\* [0, max_delay], else base_delay * 2^(attempt_index - 1) clamped to
\* max_delay), and so lies between now and now + 1000 * max_delay.
RetryAtFollowsBackoffFormula ==
    Computed =>
        LET c == Unwrap(call)
            a == c.args
        IN  /\ c.retry_at = WideAdd(Wide(a.now_ms), FormulaDelayMs(a))
            /\ ~WideLess(c.retry_at, Wide(a.now_ms))
            /\ ~WideLess(WideAdd(Wide(a.now_ms),
                                 Times1000(a.settings.auto_retry_max_delay_seconds)),
                         c.retry_at)

---------------------------------------------------------------------------
\* Cancelling a pipeline and retrying a step.

\* This step is cancel_pipeline(pid) run to its return.
CancelPipelineStep(pid) ==
    /\ ops' = ops - 1
    /\ last'.op = "cancel_pipeline"
    /\ last'.pipeline_id = Some(pid)

\* The pipeline as pipelines.json holds it.
PipelineOf(pipelines, pid) == pipelines[PipelineIndex(pipelines, pid)]

\* The job the pipeline's current step is bound to is Queued or Running in
\* the list of jobs.
CurrentStepJobActive(p, jobs) ==
    /\ p.current_step_index < Len(p.steps)
    /\ LET step == p.steps[p.current_step_index + 1]
       IN  /\ IsSome(step.job_id)
           /\ IsSome(FindJob(jobs, Unwrap(step.job_id)))
           /\ Unwrap(FindJob(jobs, Unwrap(step.job_id))).status \in {"Queued", "Running"}

NeverStarted(step) == step.status = "Pending" /\ step.job_id = None

\* C25: cancel_pipeline on a Running pipeline whose current step is bound
\* to a job that is Queued or Running, in jobs.json and in memory, returns with the pipeline Canceled, the
\* current step Canceled, the bound job Canceled, current_step_index as it
\* was, and every step that had not started still Pending without a job.
CancelPipelineCancelsCurrentStep ==
    [][\A pid \in KnownPipes :
         (/\ CancelPipelineStep(pid)
          /\ PipelineIndex(diskPipes, pid) /= 0
          /\ PipelineOf(diskPipes, pid).status = "Running"
          /\ CurrentStepJobActive(PipelineOf(diskPipes, pid), diskJobs)
          /\ CurrentStepJobActive(PipelineOf(diskPipes, pid),
                                  init_job_runtime(World).mem))
         => LET p == PipelineOf(diskPipes, pid)
                q == PipelineOf(diskPipes', pid)
                k == p.current_step_index + 1
                job_id == Unwrap(p.steps[k].job_id)
            IN  /\ last'.ok
                /\ q.status = "Canceled"
                /\ q.current_step_index = p.current_step_index
                /\ q.steps[k].status = "Canceled"
                /\ q.steps[k].job_id = Some(job_id)
                /\ Unwrap(FindJob(diskJobs', job_id)).status = "Canceled"
                /\ Unwrap(FindJob(memJobs', job_id)).status = "Canceled"
                /\ \A i \in 1..Len(p.steps) :
                      NeverStarted(p.steps[i]) => NeverStarted(q.steps[i])]_vars

\* A cancel_pipeline has returned on a two-step pipeline that was Running
\* with its first step bound to the job the worker is executing: the job
\* and the step are Canceled and the second step has not started.
RunningPipelineCanceled ==
    /\ last.op = "cancel_pipeline"
    /\ last.ok
    /\ IsSome(last.pre)
    /\ LET p == Unwrap(last.pre)
           q == PipelineOf(diskPipes, Unwrap(last.pipeline_id))
       IN  /\ p.status = "Running"
           /\ Len(p.steps) = 2
           /\ p.current_step_index = 0
           /\ IsSome(p.steps[1].job_id)
           /\ running_job_id = p.steps[1].job_id
           /\ Unwrap(FindJob(memJobs, Unwrap(p.steps[1].job_id))).status = "Canceled"
           /\ q.status = "Canceled"
           /\ q.steps[1].status = "Canceled"
           /\ NeverStarted(q.steps[2])

\* C26: cancel_pipeline on a pipeline that is already Succeeded, Failed or
\* Canceled returns without an error and leaves the pipeline's status and
\* steps as they were.
CancelOfTerminalPipelineIsNoOp ==
    [][\A pid \in KnownPipes :
         (/\ CancelPipelineStep(pid)
          /\ PipelineIndex(diskPipes, pid) /= 0
          /\ PipelineOf(diskPipes, pid).status \in {"Succeeded", "Failed", "Canceled"})
         => /\ last'.ok
            /\ PipelineOf(diskPipes', pid).status = PipelineOf(diskPipes, pid).status
            /\ PipelineOf(diskPipes', pid).steps = PipelineOf(diskPipes, pid).steps]_vars

\* This step is retry_pipeline_step(pid, step_id, force) run to its return.
RetryStepStep(pid, step_id, force) ==
    /\ ops' = ops - 1
    /\ last'.op = (IF force THEN "retry_pipeline_step_force" ELSE "retry_pipeline_step")
    /\ last'.pipeline_id = Some(pid)
    /\ last'.pre = Some([step_id |-> step_id])

Cleared(step) ==
    /\ step.job_id = None
    /\ step.run_id = None
    /\ step.started_at = None
    /\ step.finished_at = None

\* C27: retry_pipeline_step on a retryable step (Failed, NeedsRetry or
\* Canceled, or any step with force) returns with every later step Pending
\* and cleared, the earlier steps as they were, current_step_index at the
\* step and the pipeline Running, and with exactly one new job, Queued and
\* bound to the step, whose run_id and finished_at are cleared.
RetryStepRestartsFromStep ==
    [][\A pid \in KnownPipes, step_id \in 1..MaxSteps, force \in BOOLEAN :
         (/\ RetryStepStep(pid, step_id, force)
          /\ PipelineIndex(diskPipes, pid) /= 0
          /\ StepIndex(PipelineOf(diskPipes, pid).steps, step_id) /= 0
          /\ \/ force
             \/ PipelineOf(diskPipes, pid).steps[
                    StepIndex(PipelineOf(diskPipes, pid).steps, step_id)].status
                  \in {"Failed", "NeedsRetry", "Canceled"})
         => LET p == PipelineOf(diskPipes, pid)
                q == PipelineOf(diskPipes', pid)
                k == StepIndex(p.steps, step_id)
            IN  /\ last'.ok
                /\ q.status = "Running"
                /\ q.current_step_index = k - 1
                /\ Len(q.steps) = Len(p.steps)
                /\ \A i \in 1..(k - 1) : q.steps[i] = p.steps[i]
                /\ \A i \in (k + 1)..Len(p.steps) :
                      q.steps[i].status = "Pending" /\ Cleared(q.steps[i])
                /\ q.steps[k].job_id = Some(nextJobId)
                /\ q.steps[k].run_id = None
                /\ q.steps[k].finished_at = None
                /\ nextJobId' = nextJobId + 1
                /\ diskJobs' = memJobs'
                /\ Len(diskJobs') = Len(diskJobs) + 1
                /\ SubSeq(diskJobs', 1, Len(diskJobs)) = diskJobs
                /\ diskJobs'[Len(diskJobs')].job_id = nextJobId
                /\ diskJobs'[Len(diskJobs')].status = "Queued"]_vars

\* A forced retry_pipeline_step of the first step has returned on a
\* two-step pipeline whose second step had been bound to a job: the first
\* step is bound to the new job and the second is Pending and cleared.
StartedPipelineRestarted ==
    /\ last.op = "retry_pipeline_step_force"
    /\ last.ok
    /\ last.pre = Some([step_id |-> 1])
    /\ LET q == PipelineOf(diskPipes, Unwrap(last.pipeline_id))
       IN  /\ Len(q.steps) = 2
           /\ q.current_step_index = 0
           /\ q.steps[1].job_id = Some(nextJobId - 1)
           /\ q.steps[2].status = "Pending"
           /\ Cleared(q.steps[2])
           /\ \E i \in 1..Len(diskJobs) :
                 /\ diskJobs[i].job_id < nextJobId - 1
                 /\ diskJobs[i].template_id = q.steps[2].template_id

\* C28: in every state, in every pipeline, each step after the one
\* current_step_index names is Pending and bound to no job.
LaterStepsNotStarted ==
    \A i \in 1..Len(diskPipes) :
       \A k \in 1..Len(diskPipes[i].steps) :
          k - 1 > diskPipes[i].current_step_index
             => NeverStarted(diskPipes[i].steps[k])

\* A pipeline is back at its first step while the job its second step once
\* ran is still in jobs.json.
BackBeforeStartedStep ==
    \E i \in 1..Len(diskPipes) :
       /\ Len(diskPipes[i].steps) = 2
       /\ diskPipes[i].current_step_index = 0
       /\ \E j \in 1..Len(diskJobs) :
             /\ diskJobs[j].canonical_id = diskPipes[i].canonical_id
             /\ diskJobs[j].template_id = diskPipes[i].steps[2].template_id

---------------------------------------------------------------------------
\* Removal of jobs.

\* The ids of the jobs the store holds: guard.jobs and jobs.json.
StoredJobIds(mem, disk) ==
    {mem[i].job_id : i \in 1..Len(mem)} \cup {disk[i].job_id : i \in 1..Len(disk)}

\* C29: a job leaves the job store (guard.jobs and jobs.json) only in a
\* clear_finished_jobs, and only if it is Succeeded, Failed or Canceled
\* in guard.jobs when the call runs; no other step removes a job.
OnlyClearFinishedRemovesJobs ==
    [][\A id \in StoredJobIds(memJobs, diskJobs) \ StoredJobIds(memJobs', diskJobs') :
          /\ ops' = ops - 1
          /\ last'.op = "clear_finished_jobs"
          /\ IsSome(FindJob(init_job_runtime(World).mem, id))
          /\ IsFinished(Unwrap(FindJob(init_job_runtime(World).mem, id)))]_vars

---------------------------------------------------------------------------
\* Several worker threads.  start_job_worker_if_needed reads WORKER_STARTED,
\* spawns the worker thread and only then sets WORKER_STARTED: callers that
\* are in it together each spawn a worker.  main calls it first
\* (main.rs:5976); the calls race when that call returned Err from
\* init_job_runtime before it reached the flag.  Here threads holds the
\* flag, the position of each command thread and of each worker thread
\* spawned; wpc and wjob are not used.  There is no pipeline, so the
\* reconciliation in apply_job_result returns at once.
MaxCallers == 2
MaxWorkers == 2
MaxWorkerOps == 3

\* A variant of the worker's test that does not look at running_job_id.
WorkerMayPickAlways(guard_running_job_id) == TRUE

\* if guard.running_job_id.is_some() { None } else { ... }
WorkerMayPick(guard_running_job_id) == ~IsSome(guard_running_job_id)

InitWorkers ==
    /\ memJobs = <<>>
    /\ diskJobs = <<>>
    /\ diskPipes = <<>>
    /\ running_job_id = None
    /\ cancel_requested = {}
    /\ wpc = "loop"
    /\ wjob = 0
    /\ booted = TRUE
    /\ now = 0
    /\ nextJobId = 1
    /\ nextPipeId = 1
    /\ settings \in SettingsChoices
    /\ audit = <<>>
    /\ files = NoFiles
    /\ last = NoLast
    /\ rec = None
    /\ call = None
    /\ ops = MaxWorkerOps
    /\ threads = [started |-> FALSE,
                  callers |-> [c \in 1..MaxCallers |-> "idle"],
                  workers |-> <<>>]

WorkersVarsUnchanged ==
    UNCHANGED <<wpc, wjob, envVars, nextPipeId, audit, files, last, rec, call>>

\* A command thread runs enqueue_job up to its call of
\* start_job_worker_if_needed.
CallerEnqueue(c) ==
    /\ threads.callers[c] = "idle"
    /\ ops > 0
    /\ ops' = ops - 1
    /\ Commit(enqueue_job(World))
    /\ threads' = [threads EXCEPT !.callers[c] = "start"]
    /\ UNCHANGED running_job_id
    /\ WorkersVarsUnchanged

\* A command thread runs retry_job with force up to its call of
\* start_job_worker_if_needed.
CallerRetry(c) ==
    \E id \in KnownJobs :
        /\ threads.callers[c] = "idle"
        /\ ops > 0
        /\ ops' = ops - 1
        /\ retry_job(World, id, TRUE).ok
        /\ Commit(retry_job(World, id, TRUE))
        /\ threads' = [threads EXCEPT !.callers[c] = "start"]
        /\ UNCHANGED running_job_id
        /\ WorkersVarsUnchanged

\* A command thread runs cancel_job, which does not start the worker.
CallerCancel(c) ==
    \E id \in KnownJobs :
        /\ threads.callers[c] = "idle"
        /\ ops > 0
        /\ ops' = ops - 1
        /\ Commit(cancel_job(World, id))
        /\ UNCHANGED <<running_job_id, threads>>
        /\ WorkersVarsUnchanged

\* The next step of start_job_worker_if_needed for a thread at pc: the pc
\* it moves to (done after the return), whether the step spawns a worker
\* thread and whether it sets WORKER_STARTED.
StartStep(pc, done) ==
    CASE pc = "start" ->
           [pc |-> IF threads.started THEN done ELSE "checked",
            spawns |-> FALSE, sets |-> FALSE]
      [] pc = "checked" -> [pc |-> "spawned", spawns |-> TRUE, sets |-> FALSE]
      [] pc = "spawned" -> [pc |-> done, spawns |-> FALSE, sets |-> TRUE]

\* threads after the step s of start_job_worker_if_needed.
Started(t, s) ==
    [t EXCEPT !.started = @ \/ s.sets,
              !.workers = IF s.spawns THEN Append(@, [pc |-> "loop", job |-> 0]) ELSE @]

InStart(pc) == pc \in {"start", "checked", "spawned"}

\* start_job_worker_if_needed on a command thread, one step.
CallerStart(c) ==
    /\ InStart(threads.callers[c])
    /\ LET s == StartStep(threads.callers[c], "idle")
       IN  /\ s.spawns => Len(threads.workers) < MaxWorkers
           /\ threads' = Started([threads EXCEPT !.callers[c] = s.pc], s)
    /\ UNCHANGED <<runtimeVars, running_job_id, ops>>
    /\ WorkersVarsUnchanged

\* start_job_worker_if_needed at the end of apply_job_result, on the
\* worker thread, one step.
WorkerStart(i) ==
    /\ InStart(threads.workers[i].pc)
    /\ LET s == StartStep(threads.workers[i].pc, "loop")
       IN  /\ s.spawns => Len(threads.workers) < MaxWorkers
           /\ threads' = Started([threads EXCEPT !.workers[i].pc = s.pc], s)
    /\ UNCHANGED <<runtimeVars, running_job_id, ops>>
    /\ WorkersVarsUnchanged

\* The locked block at the top of the loop of worker thread i.
SpawnedWorkerPick(i) ==
    /\ threads.workers[i].pc = "loop"
    /\ WorkerMayPick(running_job_id)
    /\ FirstQueued(memJobs, 1) /= 0
    /\ LET idx == FirstQueued(memJobs, 1)
       IN  /\ memJobs' = [memJobs EXCEPT ![idx].status = "Running",
                                          ![idx].attempt = @ + 1,
                                          ![idx].updated_at = now]
           /\ running_job_id' = Some(memJobs[idx].job_id)
           /\ threads' = [threads EXCEPT !.workers[i] =
                             [pc |-> "picked", job |-> memJobs[idx].job_id]]
    /\ UNCHANGED <<diskJobs, diskPipes, cancel_requested, nextJobId, ops>>
    /\ WorkersVarsUnchanged

\* persist_state after the pick; the adapter is then invoked.
SpawnedWorkerPersistPick(i) ==
    /\ threads.workers[i].pc = "picked"
    /\ diskJobs' = memJobs
    /\ threads' = [threads EXCEPT !.workers[i].pc = "exec"]
    /\ UNCHANGED <<memJobs, diskPipes, cancel_requested, nextJobId, running_job_id, ops>>
    /\ WorkersVarsUnchanged

\* The adapter returns to worker thread i and apply_job_result runs its
\* locked block; Err, back to the loop, if the job is no longer in
\* guard.jobs.
SpawnedWorkerApply(i) ==
    /\ threads.workers[i].pc = "exec"
    /\ \E run_result \in RunResults :
         LET job_id == threads.workers[i].job
             idx == JobIndex(memJobs, job_id)
         IN  IF idx = 0
             THEN /\ threads' = [threads EXCEPT !.workers[i].pc = "loop"]
                  /\ UNCHANGED <<memJobs, running_job_id, cancel_requested>>
             ELSE /\ memJobs' = ApplyResult(memJobs, idx, run_result,
                                            job_id \in cancel_requested)
                  /\ running_job_id' = None
                  /\ cancel_requested' = cancel_requested \ {job_id}
                  /\ threads' = [threads EXCEPT !.workers[i].pc = "applied"]
    /\ UNCHANGED <<diskJobs, diskPipes, nextJobId, ops>>
    /\ WorkersVarsUnchanged

\* persist_state in apply_job_result, then the call of
\* start_job_worker_if_needed.
SpawnedWorkerPersistResult(i) ==
    /\ threads.workers[i].pc = "applied"
    /\ diskJobs' = memJobs
    /\ threads' = [threads EXCEPT !.workers[i].pc = "start"]
    /\ UNCHANGED <<memJobs, diskPipes, cancel_requested, nextJobId, running_job_id, ops>>
    /\ WorkersVarsUnchanged

NextWorkers ==
    \/ \E c \in 1..MaxCallers : CallerEnqueue(c)
    \/ \E c \in 1..MaxCallers : CallerRetry(c)
    \/ \E c \in 1..MaxCallers : CallerCancel(c)
    \/ \E c \in 1..MaxCallers : CallerStart(c)
    \/ \E i \in 1..Len(threads.workers) : WorkerStart(i)
    \/ \E i \in 1..Len(threads.workers) : SpawnedWorkerPick(i)
    \/ \E i \in 1..Len(threads.workers) : SpawnedWorkerPersistPick(i)
    \/ \E i \in 1..Len(threads.workers) : SpawnedWorkerApply(i)
    \/ \E i \in 1..Len(threads.workers) : SpawnedWorkerPersistResult(i)

SpecWorkers == InitWorkers /\ [][NextWorkers]_vars

\* The worker threads whose adapter execution is in flight: the job is
\* picked and its outcome is not applied yet.
InFlight == {i \in 1..Len(threads.workers) : threads.workers[i].pc \in {"picked", "exec"}}

\* C30: at most one adapter execution is in flight at any time, whatever
\* the command threads do and however many worker threads concurrent calls
\* of start_job_worker_if_needed have spawned.
OneExecutionInFlight == Cardinality(InFlight) <= 1

\* Two worker threads have been spawned; one executes a job after the
\* other has executed one.
SecondWorkerExecutes ==
    /\ Len(threads.workers) = 2
    /\ \E i, k \in 1..2 :
          /\ i /= k
          /\ threads.workers[i].pc = "exec"
          /\ threads.workers[k].pc = "loop"
          /\ threads.workers[k].job /= 0
          /\ threads.workers[k].job /= threads.workers[i].job

---------------------------------------------------------------------------
\* Scoped and unscoped reconciliation.

\* C31: a call of reconcile_pipelines_with_jobs scoped to the id of a job
\* of jobs.json leaves the pipelines document and the jobs (in jobs.json and in guard.jobs, the
\* enqueued ones included) that the unscoped call would leave, whatever
\* the documents and the job.
ScopedReconcileEqualsUnscoped ==
    [][(/\ ops' = ops - 1
        /\ last'.op = "reconcile"
        /\ IsSome(last'.job_id)
        /\ JobIndex(diskJobs, Unwrap(last'.job_id)) /= 0)
         => LET unscoped == reconcile_pipelines_with_jobs(World, None)
            IN  /\ diskPipes' = unscoped.pipes
                /\ diskJobs' = unscoped.disk
                /\ memJobs' = unscoped.mem]_vars

---------------------------------------------------------------------------
\* Pipelines and the retry of a bound job.

\* C32: when retry_job has put the job bound to a pipeline's current step
\* back to Queued and returned, reconciliation done, the step mirrors the
\* job again: while the job is Queued or Running the step is Running and
\* the pipeline is Running, not left NeedsRetry or Failed.
RetriedJobCarriesPipeline ==
    (last.op = "retry_job" /\ last.ok)
        => \A i \in 1..Len(diskPipes) :
              LET p == diskPipes[i]
                  job == FindJob(diskJobs, Unwrap(last.job_id))
              IN  (/\ p.current_step_index < Len(p.steps)
                   /\ p.steps[p.current_step_index + 1].job_id = last.job_id
                   /\ IsSome(job)
                   /\ Unwrap(job).status \in {"Queued", "Running"})
                  => /\ p.steps[p.current_step_index + 1].status =
                          pipeline_step_status_from_job(Unwrap(job))
                     /\ p.status = "Running"

---------------------------------------------------------------------------
\* The jobs lock in tick_auto_retry.

\* C33: tick_auto_retry never locks the jobs mutex while it holds it: no
\* call is left deadlocked, or dead with the mutex poisoned, and every
\* call returns.
TickNeverRelocks ==
    /\ LockFree
    /\ last.op /= "tick_never_returned"

---------------------------------------------------------------------------
\* Two reconciliation passes at once: the pass of list_pipelines or
\* get_pipeline on a command thread, step by step, beside the worker
\* thread, whose apply_job_result ends with a pass of its own.

\* list_pipelines or get_pipeline up to the locked block of its pass; with
\* no pipeline the pass returns at once.
ListPipelinesLoad ==
    LET w == init_job_runtime(World)
    IN  /\ booted
        /\ Idle
        /\ ops > 0
        /\ ops' = ops - 1
        /\ IF w.pipes = <<>>
           THEN /\ Commit(w)
                /\ rec' = None
           ELSE /\ Commit([w EXCEPT !.mem = load_jobs_from_file(w)])
                /\ rec' = BeginPass(w, None, "list_pipelines")
        /\ last' = [NoLast EXCEPT !.op = "list_pipelines"]
        /\ UNCHANGED <<workerVars, envVars, nextPipeId, audit, files, threads, call>>

NextPasses ==
    \/ CreatePipeline
    \/ ListPipelinesLoad
    \/ ReconcileIteration
    \/ ReconcileSave
    \/ WorkerPick
    \/ WorkerPersistPick
    \/ WorkerApply
    \/ WorkerPersistResult
    \/ WorkerReconcile

SpecPasses == Init /\ [][NextPasses]_vars

\* C34: two passes that overlap leave what one pass after the other would
\* leave: once both are over, no step has had two jobs enqueued for it,
\* and each job enqueued for a step is the job the step is bound to (no
\* pass has written over the other's binding).
PassesAsIfSerial ==
    (rec = None /\ wpc = "loop")
        => \A i \in 1..Len(diskPipes) :
              \A k \in 1..Len(diskPipes[i].steps) :
                 /\ Cardinality(JobsOfStep(diskPipes[i], k)) <= 1
                 /\ \A j \in JobsOfStep(diskPipes[i], k) :
                       diskPipes[i].steps[k].job_id = Some(diskJobs[j].job_id)

---------------------------------------------------------------------------
\* Jobs of one pipeline.

\* The jobs of jobs.json enqueued for pipeline p that are Queued or Running.
ActiveJobsOf(p) ==
    {j \in 1..Len(diskJobs) :
        /\ diskJobs[j].canonical_id = p.canonical_id
        /\ \E k \in 1..Len(p.steps) : diskJobs[j].template_id = p.steps[k].template_id
        /\ diskJobs[j].status \in {"Queued", "Running"}}

\* C35: at any time at most one of the jobs enqueued for a pipeline is
\* Queued or Running, also after retry_pipeline_step (forced or not) and
\* after a tick.
OneActiveJobPerPipeline ==
    \A i \in 1..Len(diskPipes) : Cardinality(ActiveJobsOf(diskPipes[i])) <= 1

\* C36: a pipeline has status Succeeded only if every one of its steps has
\* status Succeeded.
SucceededPipelineHasSucceededSteps ==
    \A i \in 1..Len(diskPipes) :
        diskPipes[i].status = "Succeeded"
            => \A k \in 1..Len(diskPipes[i].steps) :
                   diskPipes[i].steps[k].status = "Succeeded"

---------------------------------------------------------------------------
\* Execution after a retry.

\* The statuses apply_job_result records as the outcome of an execution.
OutcomeStatuses == {"Succeeded", "Failed", "NeedsRetry", "Canceled"}

\* C37: after retry_job has returned Ok the job is Queued, and no step of
\* the worker gives it an outcome before the worker has moved it to
\* Running: the outcome of an execution that was in flight when the retry
\* was forced is not recorded as the result of the retry.
RetriedJobRunsBeforeOutcome ==
    [][(/\ last.op \in {"retry_job", "retry_job_force"}
        /\ last.ok
        /\ last' = last
        /\ JobIndex(memJobs, Unwrap(last.job_id)) /= 0
        /\ memJobs[JobIndex(memJobs, Unwrap(last.job_id))].status = "Queued"
        /\ JobIndex(memJobs', Unwrap(last.job_id)) /= 0)
         => memJobs'[JobIndex(memJobs', Unwrap(last.job_id))].status
                \notin OutcomeStatuses]_vars

---------------------------------------------------------------------------
\* The attempt counter.

\* The statuses a job has only after the worker has moved it to Running.
ExecutedStatuses == {"Running", "Succeeded", "Failed", "NeedsRetry"}

\* C38: the persisted attempt of a job is the number of times the worker
\* has moved it to Running, and no command changes it; so a job that
\* jobs.json shows Running or with the outcome of an execution has
\* attempt at least 1.
AttemptCountsExecutions ==
    \A i \in 1..Len(diskJobs) :
        diskJobs[i].status \in ExecutedStatuses => diskJobs[i].attempt >= 1

---------------------------------------------------------------------------
\* retry_at and NeedsRetry.

\* Every record of jobs has a retry_at exactly when it is NeedsRetry.
ScheduledIffNeedsRetry(jobs) ==
    \A i \in 1..Len(jobs) : IsSome(jobs[i].retry_at) <=> jobs[i].status = "NeedsRetry"

\* In the step from before to after, every job that is NeedsRetry on both
\* sides keeps its retry_at.
ScheduleKept(before, after) ==
    \A i \in 1..Len(before) :
        LET k == JobIndex(after, before[i].job_id)
        IN  (k /= 0 /\ before[i].status = "NeedsRetry" /\ after[k].status = "NeedsRetry")
                => after[k].retry_at = before[i].retry_at

\* The step is the locked block of apply_job_result and it leaves the
\* worker's job NeedsRetry with the instant computed from
\* auto_retry_attempt_count + 1.
OutcomeScheduled ==
    (wpc = "exec" /\ wpc' = "applied"
        /\ memJobs'[JobIndex(memJobs', wjob)].status = "NeedsRetry")
     => LET job == memJobs[JobIndex(memJobs, wjob)]
            after == memJobs'[JobIndex(memJobs', wjob)]
        IN  after.retry_at = Some(compute_next_retry_at_ms(
                                    now, after.retry_after_seconds,
                                    job.auto_retry_attempt_count + 1, settings))

\* C39: in guard.jobs and in jobs.json a job has a retry_at exactly when it
\* is NeedsRetry; the outcome that moves it into NeedsRetry sets retry_at
\* from auto_retry_attempt_count + 1, and retry_at does not change while
\* the job stays NeedsRetry.
RetryAtExactlyWhenNeedsRetry ==
    /\ [](ScheduledIffNeedsRetry(memJobs) /\ ScheduledIffNeedsRetry(diskJobs))
    /\ [][/\ OutcomeScheduled
          /\ ScheduleKept(memJobs, memJobs')
          /\ ScheduleKept(diskJobs, diskJobs')]_vars

\* retry_job has sent a job that was NeedsRetry with a retry_at back to the
\* queue, where it has none.
RetriedJobUnscheduled ==
    /\ last.op \in {"retry_job", "retry_job_force"}
    /\ last.ok
    /\ IsSome(last.pre)
    /\ Unwrap(last.pre).status = "NeedsRetry"
    /\ IsSome(Unwrap(last.pre).retry_at)
    /\ JobIndex(diskJobs, Unwrap(last.job_id)) /= 0
    /\ diskJobs[JobIndex(diskJobs, Unwrap(last.job_id))].status = "Queued"
    /\ diskJobs[JobIndex(diskJobs, Unwrap(last.job_id))].retry_at = None

---------------------------------------------------------------------------
\* The worker's pick.

\* C40: the job the worker picks is Queued in guard.jobs at that moment, no
\* Queued job was created before it (job ids are given in creation order),
\* and no job of guard.jobs is Running when it is picked.
PickIsEarliestQueuedAndAlone ==
    [][Picked =>
         LET idx == JobIndex(memJobs, wjob')
         IN  /\ idx /= 0
             /\ memJobs[idx].status = "Queued"
             /\ \A i \in QueuedIn(memJobs) : memJobs[i].job_id >= wjob'
             /\ RunningCount(memJobs) = 0]_vars

---------------------------------------------------------------------------
\* Several pipelines.  SpecPipelines runs create_pipeline up to
\* MaxPipelines times beside retry_pipeline_step, cancel_job and the
\* worker, so that a reconciliation finds other pipelines to advance.

MaxPipelines == 2

CreateAnotherPipeline ==
    \E nsteps \in 1..MaxSteps :
        /\ nextPipeId <= MaxPipelines
        /\ Command("create_pipeline", create_pipeline(World, nextPipeId, nsteps),
                   None, Some(nextPipeId))
        /\ nextPipeId' = nextPipeId + 1
        /\ UNCHANGED <<audit, files, threads>>

NextPipelines ==
    \/ CreateAnotherPipeline
    \/ RetryPipelineStep
    \/ CancelJob
    \/ WorkerPick
    \/ WorkerPersistPick
    \/ WorkerApply
    \/ WorkerPersistResult
    \/ WorkerReconcile

SpecPipelines == Init /\ [][NextPipelines]_vars

\* The jobs of jobs enqueued since nid was the next job id.
NewJobs(jobs, nid) == {i \in 1..Len(jobs) : jobs[i].job_id >= nid}

\* C27, for the pipeline that is retried: retry_pipeline_step on a
\* retryable step (Failed, NeedsRetry or Canceled, or any step with force)
\* returns with every later step Pending and cleared, the earlier steps as
\* they were, current_step_index at the step and the pipeline Running, and
\* with exactly one new job of that pipeline, Queued and bound to the step,
\* whose run_id and finished_at are cleared; the jobs there were are kept
\* and every new job, of this pipeline or another, is Queued.
RetryStepRestartsItsPipeline ==
    [][\A pid \in KnownPipes, step_id \in 1..MaxSteps, force \in BOOLEAN :
         (/\ RetryStepStep(pid, step_id, force)
          /\ PipelineIndex(diskPipes, pid) /= 0
          /\ StepIndex(PipelineOf(diskPipes, pid).steps, step_id) /= 0
          /\ \/ force
             \/ PipelineOf(diskPipes, pid).steps[
                    StepIndex(PipelineOf(diskPipes, pid).steps, step_id)].status
                  \in {"Failed", "NeedsRetry", "Canceled"})
         => LET p == PipelineOf(diskPipes, pid)
                q == PipelineOf(diskPipes', pid)
                k == StepIndex(p.steps, step_id)
                new == NewJobs(diskJobs', nextJobId)
                own == {i \in new : diskJobs'[i].canonical_id = p.canonical_id}
            IN  /\ last'.ok
                /\ q.status = "Running"
                /\ q.current_step_index = k - 1
                /\ Len(q.steps) = Len(p.steps)
                /\ \A i \in 1..(k - 1) : q.steps[i] = p.steps[i]
                /\ \A i \in (k + 1)..Len(p.steps) :
                      q.steps[i].status = "Pending" /\ Cleared(q.steps[i])
                /\ Cardinality(own) = 1
                /\ \A i \in own :
                      /\ q.steps[k].job_id = Some(diskJobs'[i].job_id)
                      /\ diskJobs'[i].template_id = q.steps[k].template_id
                /\ q.steps[k].run_id = None
                /\ q.steps[k].finished_at = None
                /\ diskJobs' = memJobs'
                /\ SubSeq(diskJobs', 1, Len(diskJobs)) = diskJobs
                /\ new = (Len(diskJobs) + 1)..Len(diskJobs')
                /\ \A i \in new : diskJobs'[i].status = "Queued"]_vars

\* retry_pipeline_step has returned on the second of two pipelines and its
\* reconciliation has also moved the first pipeline to its second step:
\* the two newest jobs belong to different pipelines.
RetryAdvancedAnotherPipeline ==
    /\ last.op \in {"retry_pipeline_step", "retry_pipeline_step_force"}
    /\ last.ok
    /\ last.pipeline_id = Some(2)
    /\ Len(diskPipes) = 2
    /\ diskPipes[1].current_step_index = 1
    /\ diskPipes[1].steps[2].job_id = Some(nextJobId - 2)
    /\ PipelineOf(diskPipes, 2).steps[Unwrap(last.pre).step_id].job_id
          = Some(nextJobId - 1)

=============================================================================
